---- MODULE Spec2Model ----
(***************************************************************************)
(* A model of namemaker.NameSet (src/src/namemaker/__init__.py): the       *)
(* Markov transition table, the cached mean of the length metric, the      *)
(* multiset-aware operators +, -, |, & and their in-place forms, the       *)
(* single-name mutators, the shared/linked histories, make_name and the    *)
(* module's banned words.                                                  *)
(*                                                                         *)
(* Strings are sequences of one-character strings; the empty string is     *)
(* <<>>.  A Python float is modelled by the exact rational it stands for   *)
(* (a record [n, d] in lowest terms): no rounding is modelled.             *)
(***************************************************************************)
EXTENDS Integers, Sequences, FiniteSets, TLC

VARIABLES sets, cells, aliases, banned_words, walk

vars == <<sets, cells, aliases, banned_words, walk>>

\* walk is the call of A._make_name_raw() in progress: where it stands and its
\* local next_letter_key; no call is in progress
Idle == [pc |-> "idle", next_letter_key |-> <<>>]

(***************************************************************************)
(* Bounds of the model.                                                    *)
(***************************************************************************)
\* the longest corpus a name-set is driven to
MaxNames == 3
\* the longest right operand of an operator
MaxOperand == 2
\* the largest Markov order used
MaxOrder == 1
\* the largest |sum of metric| the cached mean may stand for
MaxSum == 6
\* the longest raw name a walk of the table is followed to
MaxRaw == 2
\* the largest max_attempts a caller of make_name passes
MaxAttempts == 2
\* the longest corpus of SpecFrame
MaxFrame == 2

(***************************************************************************)
(* Program constants.                                                      *)
(***************************************************************************)
\* _END = None, the end-of-name symbol of a continuation list
END == "None"
MIN == 0
MAX == 1
AVG == 2
DEFAULT_N_CANDIDATES == 2

\* the characters and the names the callers draw from
Chars == {"a", "b"}
NameUniverse == {<<"a">>, <<"b">>, <<"a", "b">>}
Orders == 0..MaxOrder
\* the numbers a caller passes as an order, counted in halves: 3 is 1.5, 2 is
\* the integer 1 and -1 is -0.5
Half == 2
OrderInputs == (-Half)..(Half * MaxOrder + 1)
\* the length metrics a caller installs: the default len, and a caller's
\* own function (here: the number of "a" in the name)
NameLenFuncs == {"len", "count_a"}
DEFAULT_NAME_LEN_FUNC == "len"

\* the name-sets of a program, and the three of them most calls are made on
SetIds == {"A", "B", "R", "S"}
Callers == {"A", "B", "R"}
CellIds == 1..4

(***************************************************************************)
(* Sequences helpers (Python list semantics).                              *)
(***************************************************************************)
RECURSIVE SeqsUpTo(_, _)
SeqsUpTo(S, n) ==
    IF n = 0 THEN {<<>>}
    ELSE LET shorter == SeqsUpTo(S, n - 1)
         IN  shorter \cup {Append(s, x) : s \in {t \in shorter : Len(t) = n - 1}, x \in S}

Range(s) == {s[i] : i \in 1..Len(s)}

\* list.count(x)
Count(s, x) == Cardinality({i \in 1..Len(s) : s[i] = x})

\* index of the first occurrence of x in s (0 when absent)
FirstIndex(s, x) ==
    IF x \in Range(s) THEN CHOOSE i \in 1..Len(s) : s[i] = x /\ \A j \in 1..(i - 1) : s[j] # x
    ELSE 0

\* (mutant) the last occurrence goes
RemoveLast(s, x) ==
    LET i == CHOOSE k \in 1..Len(s) : s[k] = x /\ \A j \in (k + 1)..Len(s) : s[j] # x
    IN  [j \in 1..(Len(s) - 1) |-> IF j < i THEN s[j] ELSE s[j + 1]]

\* list.remove(x) on a list that holds x: the first occurrence goes
RemoveFirst(s, x) ==
    LET i == FirstIndex(s, x)
    IN  [j \in 1..(Len(s) - 1) |-> IF j < i THEN s[j] ELSE s[j + 1]]

(***************************************************************************)
(* Exact rationals for the cached mean.                                    *)
(***************************************************************************)
Abs(x) == IF x < 0 THEN -x ELSE x

RECURSIVE GCD(_, _)
GCD(a, b) == IF b = 0 THEN a ELSE GCD(b, a % b)

\* n/d in lowest terms, d > 0
Rat(n, d) ==
    LET g == GCD(Abs(n), Abs(d))
        s == IF d < 0 THEN -1 ELSE 1
    IN  [n |-> s * (n \div g), d |-> s * (d \div g)]

Zero == Rat(0, 1)
RatInt(i) == Rat(i, 1)
RatAdd(x, y) == Rat(x.n * y.d + y.n * x.d, x.d * y.d)
RatSub(x, y) == Rat(x.n * y.d - y.n * x.d, x.d * y.d)
RatMulInt(x, i) == Rat(x.n * i, x.d)
\* x / i for i # 0
RatDivInt(x, i) == Rat(x.n, x.d * i)
RatAbs(x) == [n |-> Abs(x.n), d |-> x.d]
RatLess(x, y) == x.n * y.d < y.n * x.d
\* x / y for y # 0
RatDiv(x, y) == Rat(x.n * y.d, x.d * y.n)

(***************************************************************************)
(* The length metric and the cached mean.                                  *)
(***************************************************************************)
\* self._name_len_func(name)
NameLen(func, name) ==
    IF func = "len" THEN Len(name) ELSE Count(name, "a")

RECURSIVE SumLen(_, _)
SumLen(func, names) ==
    IF names = <<>> THEN 0 ELSE NameLen(func, Head(names)) + SumLen(func, Tail(names))

\* _update_avg_name_len: the value it stores in _avg_name_len
UpdateAvgNameLen(names, func) ==
    IF names # <<>> THEN Rat(SumLen(func, names), Len(names)) ELSE Zero

(***************************************************************************)
(* The transition table: a function from context keys to continuation      *)
(* lists.  A Python dict compares without regard to insertion order, so    *)
(* does a function.                                                        *)
(***************************************************************************)
\* try: d[key].append(letter) except KeyError: d[key] = [letter]
AddEntry(d, key, letter) ==
    IF key \in DOMAIN d THEN [d EXCEPT ![key] = Append(@, letter)]
    ELSE d @@ (key :> <<letter>>)

\* (mutant) the context is never cut back to the order
NextKeyUncut(key, letter, order) == Append(key, letter)

\* previous_letter += letter; if len(previous_letter) > order: drop the first
NextKey(key, letter, order) ==
    LET k == Append(key, letter)
    IN  IF Len(k) > order THEN Tail(k) ELSE k

\* (mutant) the inner loop of _make_markov_dict without the end symbol after
\* the last letter of the name
RECURSIVE WalkNameNoEnd(_, _, _, _, _)
WalkNameNoEnd(d, name, i, key, order) ==
    IF i > Len(name) THEN d
    ELSE WalkNameNoEnd(AddEntry(d, key, name[i]), name, i + 1, NextKey(key, name[i], order), order)

\* the inner loop of _make_markov_dict over one name, from its i-th letter
RECURSIVE WalkName(_, _, _, _, _)
WalkName(d, name, i, key, order) ==
    IF i > Len(name) THEN AddEntry(d, key, END)
    ELSE WalkName(AddEntry(d, key, name[i]), name, i + 1, NextKey(key, name[i], order), order)

RECURSIVE WalkNames(_, _, _)
WalkNames(d, names, order) ==
    IF names = <<>> THEN d
    ELSE WalkNames(WalkName(d, Head(names), 1, <<>>, order), Tail(names), order)

EmptyDict == [k \in {} |-> <<>>]

\* _make_markov_dict: the table it stores in _markov_dict
MakeMarkovDict(names, order) == WalkNames(EmptyDict, names, order)

(***************************************************************************)
(* A name-set is a record of the attributes __init__ sets; history holds   *)
(* the identity of a history set (a cell of the variable cells), since     *)
(* several name-sets can hold the same set object.  A temporary that never *)
(* leaves an operator holds cell 0.                                        *)
(***************************************************************************)
\* NameSet.__init__(names, order, name_len_func) for a valid order
NewNameSet(names, order, func, cell) ==
    [names         |-> names,
     names_set     |-> Range(names),
     order         |-> order,
     name_len_func |-> func,
     avg_name_len  |-> UpdateAvgNameLen(names, func),
     markov_dict   |-> MakeMarkovDict(names, order),
     history       |-> cell]

\* what an operation hands back: the name-set as it leaves it, the exception
\* it raised ("none" when it returned) and the warnings it issued
Res(s, exc, warn) == [s |-> s, exc |-> exc, warn |-> warn]

\* the right operand of an operator: a list of names, or a name-set; id is
\* the name of the state that holds the name-set ("" for one only the call
\* holds)
ListOperand(names) == [kind |-> "list", names |-> names]
NameSetOperand(ns) == [kind |-> "NameSet", names |-> ns.names, ns |-> ns, id |-> ""]

\* the (order, name_len_func) warnings every operator issues for a name-set operand
Warnings(s, other) ==
    IF other.kind # "NameSet" THEN {}
    ELSE (IF s.order # other.ns.order THEN {"OrderWarning"} ELSE {})
         \cup (IF s.name_len_func # other.ns.name_len_func THEN {"NameLenWarning"} ELSE {})

\* change_order for a valid order
ChangeOrderValid(s, order) ==
    [s EXCEPT !.order = order, !.markov_dict = MakeMarkovDict(s.names, order)]

\* int(order) for an order counted in halves: the fraction is cut off, toward
\* zero
IntOf(order) == IF order >= 0 THEN order \div Half ELSE -((-order) \div Half)

\* NameSet.__init__(names, order, name_len_func) for an order counted in
\* halves: the two checks come before any attribute is set
Construct(names, order, func, cell) ==
    IF Half * IntOf(order) # order THEN [exc |-> "ValueError"]
    ELSE IF order < 0 THEN [exc |-> "ValueError"]
    ELSE [exc |-> "none", s |-> NewNameSet(names, IntOf(order), func, cell)]

\* (mutant) change_order that coerces the order with int() instead of
\* comparing with it
ChangeOrderCoercing(s, order) ==
    IF IntOf(order) < 0 THEN Res(s, "ValueError", {})
    ELSE Res(ChangeOrderValid(s, IntOf(order)), "none", {})

\* change_order, for an order counted in halves
ChangeOrder(s, order) ==
    IF Half * IntOf(order) # order THEN Res(s, "ValueError", {})
    ELSE IF order < 0 THEN Res(s, "ValueError", {})
    ELSE Res(ChangeOrderValid(s, IntOf(order)), "none", {})

\* change_name_len_func
ChangeNameLenFunc(s, func) ==
    [s EXCEPT !.name_len_func = func, !.avg_name_len = UpdateAvgNameLen(s.names, func)]

\* (mutant) a shared key takes over the other list instead of extending its own
MergeDictOverwrite(d, od) ==
    [k \in DOMAIN d \cup DOMAIN od |-> IF k \in DOMAIN od THEN od[k] ELSE d[k]]

\* the loop of __iadd__ over the other table: lists under a shared key are
\* concatenated, the other keys are taken over
MergeDict(d, od) ==
    [k \in DOMAIN d \cup DOMAIN od |->
        IF k \in DOMAIN d
        THEN (IF k \in DOMAIN od THEN d[k] \o od[k] ELSE d[k])
        ELSE od[k]]

\* the name-set __iadd__ works with: a collection is wrapped in a name-set of
\* self's order and metric, a name-set of another order or metric is copied
\* and changed to self's
Reconciled(s, other) ==
    LET o1 == IF other.kind = "NameSet" THEN other.ns
              ELSE NewNameSet(other.names, s.order, s.name_len_func, 0)
        o2 == IF s.order # o1.order THEN ChangeOrderValid(o1, s.order) ELSE o1
    IN  IF s.name_len_func # o2.name_len_func
        THEN ChangeNameLenFunc(o2, s.name_len_func) ELSE o2

\* the weighted mean __iadd__ stores (the two lengths are not both 0)
IAddAvg(avg, n, oavg, on) ==
    RatDivInt(RatAdd(RatMulInt(avg, n), RatMulInt(oavg, on)), n + on)

\* __iadd__
IAdd(s, other) ==
    IF other.kind = "str" THEN Res(s, "TypeError", {})
    ELSE LET o == Reconciled(s, other)
             w == Warnings(s, other)
         IN  IF Len(s.names) + Len(o.names) = 0 THEN Res(s, "ZeroDivisionError", w)
             ELSE Res([s EXCEPT
                         !.avg_name_len = IAddAvg(s.avg_name_len, Len(s.names),
                                                  o.avg_name_len, Len(o.names)),
                         !.names        = s.names \o o.names,
                         !.names_set    = s.names_set \cup o.names_set,
                         !.markov_dict  = MergeDict(s.markov_dict, o.markov_dict)],
                      "none", w)

\* append
AppendName(s, name) == IAdd(s, ListOperand(<<name>>))

\* add
AddName(s, name) ==
    IF name \notin s.names_set THEN AppendName(s, name) ELSE Res(s, "none", {})

\* the keys of the table of the one-name name-set remove builds, in the order
\* the walk inserts them (the order the dict is iterated in)
RECURSIVE KeyOrder(_, _, _, _, _)
KeyOrder(seen, name, i, key, order) ==
    LET seen1 == IF key \in Range(seen) THEN seen ELSE Append(seen, key)
    IN  IF i > Len(name) THEN seen1
        ELSE KeyOrder(seen1, name, i + 1, NextKey(key, name[i], order), order)

\* for letter in remove_letters: list.remove(letter); stops at a letter the
\* list does not hold (list.remove raises ValueError)
RECURSIVE RemoveLetters(_, _)
RemoveLetters(list, letters) ==
    IF letters = <<>> THEN [ok |-> TRUE, list |-> list]
    ELSE IF Head(letters) \notin Range(list) THEN [ok |-> FALSE, list |-> list]
    ELSE RemoveLetters(RemoveFirst(list, Head(letters)), Tail(letters))

\* the loop of remove over the keys of the removed name's table
RECURSIVE RemoveKeys(_, _, _)
RemoveKeys(d, rd, keys) ==
    IF keys = <<>> THEN [exc |-> "none", d |-> d]
    ELSE LET key == Head(keys)
         IN  IF key \notin DOMAIN d THEN [exc |-> "KeyError", d |-> d]
             ELSE LET r == RemoveLetters(d[key], rd[key])
                  IN  IF ~r.ok THEN [exc |-> "ValueError", d |-> [d EXCEPT ![key] = r.list]]
                      ELSE IF r.list = <<>>
                      THEN RemoveKeys([k \in DOMAIN d \ {key} |-> d[k]], rd, Tail(keys))
                      ELSE RemoveKeys([d EXCEPT ![key] = r.list], rd, Tail(keys))

\* the length remove subtracts from the sum of lengths
RemovedLen(s, name) == Len(name)

\* (mutant) the name always leaves the membership set
DiscardAlways(names_set, names1, name) == names_set \ {name}

\* if name not in self._names: self._names_set.remove(name)
Discard(names_set, names1, name) ==
    IF name \notin Range(names1) THEN names_set \ {name} ELSE names_set

\* remove
Remove(s, name) ==
    IF name \notin Range(s.names) THEN Res(s, "ValueError", {})
    ELSE LET names1 == RemoveFirst(s.names, name)
             s1     == [s EXCEPT !.names = names1]
         IN  IF name \notin Range(names1) /\ name \notin s.names_set
             THEN Res(s1, "KeyError", {})
             ELSE LET s2 == [s1 EXCEPT !.names_set = Discard(@, names1, name)]
                      rk == RemoveKeys(s.markov_dict, MakeMarkovDict(<<name>>, s.order),
                                       KeyOrder(<<>>, name, 1, <<>>, s.order))
                      s3 == [s2 EXCEPT !.markov_dict = rk.d]
                  IN  IF rk.exc # "none" THEN Res(s3, rk.exc, {})
                      ELSE IF Len(names1) = 0 THEN Res(s3, "ZeroDivisionError", {})
                      ELSE Res([s3 EXCEPT !.avg_name_len =
                                   RatDivInt(RatSub(RatMulInt(s.avg_name_len, Len(names1) + 1),
                                                    RatInt(RemovedLen(s, name))),
                                             Len(names1))],
                               "none", {})

\* the loop of remove_duplicates over the copy names[:] it iterates
RECURSIVE RemoveDuplicatesFrom(_, _, _)
RemoveDuplicatesFrom(s, snapshot, seen) ==
    IF snapshot = <<>> THEN Res(s, "none", {})
    ELSE LET name == Head(snapshot)
         IN  IF name \in seen
             THEN LET r == Remove(s, name)
                  IN  IF r.exc # "none" THEN r
                      ELSE RemoveDuplicatesFrom(r.s, Tail(snapshot), seen)
             ELSE RemoveDuplicatesFrom(s, Tail(snapshot), seen \cup {name})

\* remove_duplicates
RemoveDuplicates(s) == RemoveDuplicatesFrom(s, s.names, {})

\* the loop of __isub__: every name of the operand that is in self is removed once
RECURSIVE ISubLoop(_, _)
ISubLoop(s, names) ==
    IF names = <<>> THEN Res(s, "none", {})
    ELSE IF Head(names) \in s.names_set
    THEN LET r == Remove(s, Head(names))
         IN  IF r.exc # "none" THEN r ELSE ISubLoop(r.s, Tail(names))
    ELSE ISubLoop(s, Tail(names))

\* the loop of __isub__ when the operand is self: _NameSetIterator reads
\* self._names[index] as it is at each round, while the rounds remove from it
RECURSIVE ISubSelfLoop(_, _)
ISubSelfLoop(s, index) ==
    IF index < Len(s.names)
    THEN LET name == s.names[index + 1]
         IN  IF name \in s.names_set
             THEN LET r == Remove(s, name)
                  IN  IF r.exc # "none" THEN r ELSE ISubSelfLoop(r.s, index + 1)
             ELSE ISubSelfLoop(s, index + 1)
    ELSE Res(s, "none", {})

\* self -= self
ISubSelf(s) == ISubSelfLoop(s, 0)

\* (mutant) __isub__ without the test for a str: the str is iterated, each
\* character a name
ISubOfCharacters(s, other) ==
    LET names == IF other.kind = "str"
                 THEN [i \in 1..Len(other.names[1]) |-> <<other.names[1][i]>>]
                 ELSE other.names
        r == ISubLoop(s, names)
    IN  Res(r.s, r.exc, Warnings(s, other))

\* __isub__
ISub(s, other) ==
    IF other.kind = "str" THEN Res(s, "TypeError", {})
    ELSE LET r == ISubLoop(s, other.names)
         IN  Res(r.s, r.exc, Warnings(s, other))

\* [name for name in other_name_set if name not in self]
NewNames(s, names) == SelectSeq(names, LAMBDA name : name \notin s.names_set)

\* __ior__
IOr(s, other) ==
    IF other.kind = "str" THEN Res(s, "TypeError", {})
    ELSE LET w == Warnings(s, other)
             r == IAdd(s, ListOperand(NewNames(s, other.names)))
         IN  IF r.exc # "none" THEN Res(r.s, r.exc, w)
             ELSE LET d == RemoveDuplicates(r.s) IN Res(d.s, d.exc, w)

\* (mutant) every name of self that other holds is kept, however often
SharedNamesAll(names, others, shared) ==
    SelectSeq(names, LAMBDA name : name \in Range(others))

\* the loop of __iand__: the names of self that are still in other_names_list
RECURSIVE SharedNames(_, _, _)
SharedNames(names, others, shared) ==
    IF names = <<>> THEN shared
    ELSE IF Head(names) \in Range(others)
    THEN SharedNames(Tail(names), RemoveFirst(others, Head(names)), Append(shared, Head(names)))
    ELSE SharedNames(Tail(names), others, shared)

\* __iand__
IAnd(s, other) ==
    IF other.kind = "str" THEN Res(s, "TypeError", {})
    ELSE LET shared == SharedNames(s.names, other.names, <<>>)
         IN  Res([s EXCEPT !.names        = shared,
                           !.names_set    = Range(shared),
                           !.markov_dict  = MakeMarkovDict(shared, s.order),
                           !.avg_name_len = UpdateAvgNameLen(shared, s.name_len_func)],
                 "none", Warnings(s, other))

(***************************************************************************)
(* History sets.  cells[c] is the content of the history set c; a name-set *)
(* s holds the set sets[s].history.  A set object nobody holds any more is *)
(* garbage: its cell is emptied and its identity is free for the next set  *)
(* object created.                                                         *)
(***************************************************************************)
\* the identity a new set object gets, given the name-sets that keep theirs
FreshCell(ss, keep) ==
    CHOOSE c \in CellIds :
        /\ \A s \in keep : ss[s].history # c
        /\ \A c2 \in CellIds : (\A s \in keep : ss[s].history # c2) => c <= c2

\* the cells once the sets nobody holds are dropped
Collect(ss, cs) ==
    [c \in CellIds |-> IF \E s \in SetIds : ss[s].history = c THEN cs[c] ELSE {}]

\* the name-sets and the history sets, as one value
Heap(ss, cs) == [sets |-> ss, cells |-> cs]

\* get_history
History(h, s) == h.cells[h.sets[s].history]

\* the identity of a set object carries no information: every history set
\* is identified by the first name-set (A, B, R, S in this order) that holds
\* it
SetIndex(s) == CASE s = "A" -> 1 [] s = "B" -> 2 [] s = "R" -> 3 [] s = "S" -> 4

\* the identity the history set of each name-set gets
CanonicalCells(h) ==
    [s \in SetIds |->
        CHOOSE i \in CellIds :
            /\ \E t \in SetIds : SetIndex(t) = i /\ h.sets[t].history = h.sets[s].history
            /\ \A t \in SetIds : h.sets[t].history = h.sets[s].history => i <= SetIndex(t)]

\* the heap h with the history set of each name-set s identified by id[s]
Renamed(h, id) ==
    Heap([s \in SetIds |-> [h.sets[s] EXCEPT !.history = id[s]]],
         [c \in CellIds |->
             IF \E s \in SetIds : id[s] = c
             THEN h.cells[h.sets[CHOOSE s \in SetIds : id[s] = c].history]
             ELSE {}])

\* (the heap and the identities are computed once)
Canonical(h) ==
    CHOOSE canonical \in
        {Renamed(bound[1], bound[2]) :
            bound \in {<<heap, CanonicalCells(heap)>> : heap \in {h}}} : TRUE

\* self._history = <a new set object> for every name-set of members
Rebind(h, members, content) ==
    LET c  == FreshCell(h.sets, SetIds \ members)
        ss == [s \in SetIds |->
                 IF s \in members THEN [h.sets[s] EXCEPT !.history = c] ELSE h.sets[s]]
    IN  Canonical(Heap(ss, Collect(ss, [h.cells EXCEPT ![c] = content])))

\* a single name passed as a str
StrInput(name) == [kind |-> "str", names |-> <<name>>]

\* set(name_s), a str standing for the one name it is
NamesOf(name_s) ==
    IF name_s.kind = "str" THEN {name_s.names[1]} ELSE Range(name_s.names)

\* self._history = self._history | set(name_s): a new set object
AddToHistoryRebind(h, self, name_s) ==
    Rebind(h, {self}, History(h, self) \cup NamesOf(name_s))

\* (mutant) add_to_history without the test for a str: set(name_s) of a str
\* is the set of its characters
AddToHistoryOfCharacters(h, self, name_s) ==
    [h EXCEPT !.cells[h.sets[self].history] =
        @ \cup (IF name_s.kind = "str"
                THEN {<<name_s.names[1][i]>> : i \in 1..Len(name_s.names[1])}
                ELSE Range(name_s.names))]

\* add_to_history: self._history |= set(name_s) updates the set object in place
AddToHistory(h, self, name_s) ==
    [h EXCEPT !.cells[h.sets[self].history] = @ \cup NamesOf(name_s)]

\* clear_history
ClearHistory(h, self) ==
    [h EXCEPT !.cells[h.sets[self].history] = {}]

\* (mutant) link_histories fills the set self holds (self._history |= ...)
\* and hands it to the others
LinkHistoriesInPlace(h, self, other_name_sets) ==
    LET other_histories == {History(h, other_name_sets[i]) : i \in 1..Len(other_name_sets)}
        c  == h.sets[self].history
        ss == [s \in SetIds |->
                 IF s \in Range(other_name_sets) THEN [h.sets[s] EXCEPT !.history = c]
                 ELSE h.sets[s]]
    IN  Canonical(Heap(ss, Collect(ss, [h.cells EXCEPT ![c] = @ \cup UNION other_histories])))

\* link_histories(*other_name_sets)
LinkHistories(h, self, other_name_sets) ==
    LET other_histories == {History(h, other_name_sets[i]) : i \in 1..Len(other_name_sets)}
        shared_history  == History(h, self) \cup UNION other_histories
    IN  Rebind(h, {self} \cup Range(other_name_sets), shared_history)

\* (mutant) unlink_history keeps the set object self holds
UnlinkHistoryKeep(h, self) == h

\* unlink_history
UnlinkHistory(h, self) == Rebind(h, {self}, History(h, self))

\* copy: the attributes by value; the copy's history is a new set object
\* with the same content (the caller places it in a cell)
Copy(s) == [s EXCEPT !.history = 0]

(***************************************************************************)
(* Continuation lists as objects.  A table holds its lists by reference:   *)
(* <<s, t, key>> in aliases says that the tables of the name-sets s and t  *)
(* hold one and the same list object under key (the relation is kept       *)
(* symmetric and transitive).  __iadd__ creates such a pair                *)
(* (self._markov_dict[k] = v); += on a list and list.remove work on the    *)
(* object, so every holder sees them; del and a rebuilt table only change  *)
(* what the name-set itself holds.                                         *)
(***************************************************************************)
\* the name-sets, the history sets and the shared lists, as one value
World(ss, cs, al) == [sets |-> ss, cells |-> cs, aliases |-> al]

\* the other holders of the list object self holds under key
Partners(al, self, key) == {t \in SetIds : <<self, t, key>> \in al}

\* the in-place methods of a name-set, by name
Methods ==
    {"add", "sub", "or", "and", "append", "add_name", "remove", "remove_duplicates",
     "change_order", "change_name_len_func"}

\* self.<method>(arg), or self <op>= arg
ApplyMethod(m, s, arg) ==
    CASE m = "add"    -> IAdd(s, arg)
      [] m = "sub"    -> ISub(s, arg)
      [] m = "or"     -> IOr(s, arg)
      [] m = "and"    -> IAnd(s, arg)
      [] m = "append" -> AppendName(s, arg)
      [] m = "add_name" -> AddName(s, arg)
      [] m = "remove" -> Remove(s, arg)
      [] m = "remove_duplicates" -> RemoveDuplicates(s)
      [] m = "change_order" -> ChangeOrder(s, arg)
      [] m = "change_name_len_func" -> Res(ChangeNameLenFunc(s, arg), "none", {})

\* the methods that end with a new table (_make_markov_dict) instead of
\* working on the lists of the old one
Rebuilds(m, res) == m \in {"and", "change_order"} /\ res.exc = "none"

\* the list object s held under key when a method began, as the method left
\* it: a key the method deleted held the emptied list
ListLeft(s, key) == IF key \in DOMAIN s.markov_dict THEN s.markov_dict[key] ELSE <<>>

\* the name-sets after a method left self as post: what it did to a list
\* object shows in every table that holds the object
Propagate(ss, al, self, post) ==
    [t \in SetIds |->
        IF t = self THEN post
        ELSE [ss[t] EXCEPT !.markov_dict =
                 [k \in DOMAIN @ |-> IF <<self, t, k>> \in al THEN ListLeft(post, k) ELSE @[k]]]]

\* the shared lists self still holds after the method: none of a rebuilt
\* table, none under a deleted key
KeptAliases(al, self, post, rebuilt) ==
    {a \in al : self \notin {a[1], a[2]} \/ (~rebuilt /\ a[3] \in DOMAIN post.markov_dict)}

\* the keys under which self += other installs the list object of other
\* (self._markov_dict[k] = v): other is used as it is when it is a name-set
\* of self's order and metric, and copied or built for the call otherwise
TakenKeys(m, s, other, res) ==
    IF /\ m = "add" /\ res.exc = "none" /\ other.kind = "NameSet"
       /\ other.ns.order = s.order /\ other.ns.name_len_func = s.name_len_func
    THEN DOMAIN other.ns.markov_dict \ DOMAIN s.markov_dict
    ELSE {}

\* the pairs that say self holds, under keys, the list objects o holds
NewAliases(al, self, o, keys) ==
    IF o \notin SetIds THEN {}
    ELSE UNION {UNION {{<<self, t, k>>, <<t, self, k>>} :
                          t \in ({o} \cup Partners(al, o, k)) \ {self}} : k \in keys}

\* (mutant) the method hands back a new name-set, with a new and empty
\* history, and self names it from then on
InPlaceLeftRebound(w, self, m, arg, res) ==
    LET h == Rebind(Heap([w.sets EXCEPT ![self] = [res.s EXCEPT !.history = w.sets[self].history]],
                         w.cells), {self}, {})
    IN  [res |-> res, w |-> World(h.sets, h.cells, w.aliases)]

\* the world the method m of self leaves, called with arg in the world w,
\* where res is what the method did to self
InPlaceLeft(w, self, m, arg, res) ==
    LET rebuilt == Rebuilds(m, res)
        keys    == TakenKeys(m, w.sets[self], arg, res)
        ss      == Propagate(w.sets, IF rebuilt THEN {} ELSE w.aliases, self, res.s)
        al      == KeptAliases(w.aliases, self, res.s, rebuilt)
    IN  [res |-> res,
         w   |-> World(ss, w.cells,
                       al \cup (IF keys = {} THEN {} ELSE NewAliases(w.aliases, self, arg.id, keys)))]

\* self.<method>(arg) in the world w: the result of the call and the world
\* it leaves
InPlaceOn(w, self, m, arg) ==
    InPlaceLeft(w, self, m, arg,
                IF m = "sub" /\ arg.kind = "NameSet" /\ arg.id = self
                THEN ISubSelf(w.sets[self])
                ELSE ApplyMethod(m, w.sets[self], arg))

\* (mutant) copy_set._history = self._history: the copy holds the set object
\* of self
CopyHistoryShared(h, dst, self) ==
    LET ss == [h.sets EXCEPT ![dst] = [Copy(h.sets[self]) EXCEPT !.history = h.sets[self].history]]
    IN  Canonical(Heap(ss, Collect(ss, h.cells)))

\* copy_set._history = {*self._history}: the copy, which dst names from now
\* on, holds a new set object with the content of the history of self
CopyHistory(h, dst, self) ==
    LET ss == [h.sets EXCEPT ![dst] = [Copy(h.sets[self]) EXCEPT !.history = h.sets[self].history]]
    IN  Rebind(Heap(ss, h.cells), {dst}, History(h, self))

\* dst = self.copy(): the lists of the table are copied one by one
CopyOn(w, dst, self) ==
    LET h == CopyHistory(Heap(w.sets, w.cells), dst, self)
    IN  World(h.sets, h.cells, {a \in w.aliases : dst \notin {a[1], a[2]}})

(***************************************************************************)
(* Banned words and make_name.  The random choices of a call are choices   *)
(* of the model: make_name is the set of outcomes the call can have.       *)
(***************************************************************************)
\* str.casefold on the characters of the model
CasefoldChar(c) == CASE c = "A" -> "a" [] c = "B" -> "b" [] OTHER -> c
Casefold(name) == [i \in 1..Len(name) |-> CasefoldChar(name[i])]

\* word in name, for two strings
Contains(name, word) ==
    \E i \in 0..(Len(name) - Len(word)) : SubSeq(name, i + 1, i + Len(word)) = word

\* is_clean without the casefold
IsCleanCaseSensitive(name, banned) ==
    \A word \in banned : ~Contains(name, word)

\* is_clean
IsClean(name, banned) ==
    \A word \in banned : ~Contains(Casefold(name), Casefold(word))

\* set_banned_words
SetBannedWords(banned, words) ==
    IF words.kind = "str" THEN [banned |-> banned, exc |-> "TypeError"]
    ELSE [banned |-> Range(words.names), exc |-> "none"]

\* add_banned_words
AddBannedWords(banned, words) ==
    IF words.kind = "str" THEN [banned |-> banned, exc |-> "TypeError"]
    ELSE [banned |-> banned \cup Range(words.names), exc |-> "none"]

\* the validators a caller passes: None (_PASS_EVERYTHING), or a function of
\* the caller (here: the name starts with a capital)
ValidationFuncs == {"None", "capitalized"}
Validation(validation_func, name) ==
    IF validation_func = "None" THEN TRUE ELSE name[1] \in {"A", "B"}

\* (mutant) _get_letter that draws from the lists of all keys
GetLetterOfAnyKey(s, key) ==
    IF DOMAIN s.markov_dict # {}
    THEN UNION {Range(s.markov_dict[k]) : k \in DOMAIN s.markov_dict}
    ELSE {END}

\* _get_letter: what rng.choice can return for the key, _END when the key
\* is not in the table or has no continuation
GetLetter(s, key) ==
    IF key \in DOMAIN s.markov_dict /\ s.markov_dict[key] # <<>>
    THEN Range(s.markov_dict[key])
    ELSE {END}

\* _make_name_raw from the point where name has been generated: the names
\* the walk can return, followed up to MaxRaw characters
RECURSIVE MakeNameRawFrom(_, _, _)
MakeNameRawFrom(s, name, next_letter_key) ==
    UNION {IF next_letter = END THEN {name}
           ELSE IF Len(name) < MaxRaw
                THEN MakeNameRawFrom(s, Append(name, next_letter),
                                     NextKey(next_letter_key, next_letter, s.order))
                ELSE {}
           : next_letter \in GetLetter(s, next_letter_key)}

MakeNameRaw(s) == MakeNameRawFrom(s, <<>>, <<>>)

\* the arguments of make_name
MakeNameArgs(flags, n_candidates, pref_candidate, max_attempts, validation_func) ==
    [exclude_real_names |-> flags[1], exclude_history |-> flags[2],
     add_to_history |-> flags[3], n_candidates |-> n_candidates,
     pref_candidate |-> pref_candidate, max_attempts |-> max_attempts,
     validation_func |-> validation_func]

\* exclude_real_names, exclude_history, add_to_history
Flags == BOOLEAN \X BOOLEAN \X BOOLEAN

\* (mutant) name_valid that does not look at the history
NameValidIgnoringHistory(s, history, banned, p, name) ==
    /\ name # <<>>
    /\ Validation(p.validation_func, name)
    /\ ~(p.exclude_real_names /\ name \in s.names_set)
    /\ IsClean(name, banned)

\* name_valid
NameValid(s, history, banned, p, name) ==
    /\ name # <<>>
    /\ Validation(p.validation_func, name)
    /\ ~(p.exclude_real_names /\ name \in s.names_set)
    /\ ~(p.exclude_history /\ name \in history)
    /\ IsClean(name, banned)

\* the while loop of one candidate from its n_attempts-th attempt: what it
\* appends to name_candidates.  The attempt draws a raw name: a valid one is
\* appended, an invalid one leads to the next attempt
RECURSIVE Attempts(_, _, _, _, _)
Attempts(s, history, banned, p, n_attempts) ==
    IF n_attempts < p.max_attempts
    THEN LET raw   == MakeNameRaw(s)
             valid == {name \in raw : NameValid(s, history, banned, p, name)}
         IN  {<<name>> : name \in valid}
             \cup (IF raw # valid THEN Attempts(s, history, banned, p, n_attempts + 1)
                   ELSE {})
    ELSE {<<>>}

\* the for loop from its i-th round: the lists name_candidates can end as
RECURSIVE NameCandidates(_, _, _, _, _)
NameCandidates(s, history, banned, p, i) ==
    IF i < p.n_candidates
    THEN LET round == Attempts(s, history, banned, p, 0)
             rests == NameCandidates(s, history, banned, p, i + 1)
         IN  {c \o rest : c \in round, rest \in rests}
    ELSE {<<>>}

\* sort_key
SortKey(s, p, name) ==
    IF p.pref_candidate = AVG
    THEN RatDiv(RatAbs(RatSub(RatInt(NameLen(s.name_len_func, name)), s.avg_name_len)),
                s.avg_name_len)
    ELSE RatInt(NameLen(s.name_len_func, name))

\* (mutant) the candidates are sorted ascending and the list is reversed for
\* MAX: of the candidates with the largest key the last one comes first
FirstSortedReversed(s, p, name_candidates) ==
    LET key(i) == SortKey(s, p, name_candidates[i])
        first == CHOOSE i \in 1..Len(name_candidates) :
                    \A j \in 1..Len(name_candidates) :
                        IF p.pref_candidate = MAX
                        THEN /\ ~RatLess(key(i), key(j))
                             /\ j > i => RatLess(key(j), key(i))
                        ELSE /\ ~RatLess(key(j), key(i))
                             /\ j < i => RatLess(key(i), key(j))
    IN  name_candidates[first]

\* name_candidates.sort(key = sort_key, reverse = pref_candidate == MAX)[0]:
\* the sort is stable, also when reversed
FirstSorted(s, p, name_candidates) ==
    LET key(i) == SortKey(s, p, name_candidates[i])
        before(i, j) == IF p.pref_candidate = MAX THEN RatLess(key(j), key(i))
                        ELSE RatLess(key(i), key(j))
        first == CHOOSE i \in 1..Len(name_candidates) :
                    \A j \in 1..Len(name_candidates) :
                        /\ j < i => before(i, j)
                        /\ j > i => ~before(j, i)
    IN  name_candidates[first]

\* (mutant) make_name recording every candidate it found, not the returned
\* one only
MakeNameRecordingAll(h, banned, self, p) ==
    LET s == h.sets[self]
        Return(name, name_candidates) ==
            [name |-> name, exc |-> "none",
             h |-> IF p.add_to_history
                   THEN AddToHistory(h, self, ListOperand(name_candidates))
                   ELSE h]
        Raise(exc) == [name |-> <<>>, exc |-> exc, h |-> h]
    IN  {IF name_candidates = <<>> THEN [name |-> <<>>, exc |-> "none", h |-> h]
         ELSE IF p.pref_candidate = AVG
              THEN (IF s.avg_name_len.n = 0 THEN Raise("ZeroDivisionError")
                    ELSE Return(FirstSorted(s, p, name_candidates), name_candidates))
         ELSE IF p.pref_candidate \in {MIN, MAX}
              THEN Return(FirstSorted(s, p, name_candidates), name_candidates)
         ELSE Raise("ValueError")
         : name_candidates \in NameCandidates(s, History(h, self), banned, p, 0)}

\* make_name: the outcomes of a call (the name returned or the exception
\* raised, and the histories it leaves)
MakeName(h, banned, self, p) ==
    LET s == h.sets[self]
        Return(name) == [name |-> name, exc |-> "none",
                         h |-> IF p.add_to_history THEN AddToHistory(h, self, StrInput(name))
                               ELSE h]
        Raise(exc) == [name |-> <<>>, exc |-> exc, h |-> h]
    IN  {IF name_candidates = <<>> THEN [name |-> <<>>, exc |-> "none", h |-> h]
         ELSE IF p.pref_candidate = AVG
              THEN (IF s.avg_name_len.n = 0 THEN Raise("ZeroDivisionError")
                    ELSE Return(FirstSorted(s, p, name_candidates)))
         ELSE IF p.pref_candidate \in {MIN, MAX}
              THEN Return(FirstSorted(s, p, name_candidates))
         ELSE Raise("ValueError")
         : name_candidates \in NameCandidates(s, History(h, self), banned, p, 0)}

(***************************************************************************)
(* The state machine.  A call that raises leaves the state as the method   *)
(* left it at the raise.                                                   *)
(***************************************************************************)
\* the corpus and the cached mean stay within the bounds of the model
Bounded(s) ==
    /\ Len(s.names) <= MaxNames
    /\ Abs(s.avg_name_len.n) * (IF s.names = <<>> THEN 1 ELSE Len(s.names))
          <= MaxSum * s.avg_name_len.d

\* the name-sets, history sets and shared lists of the state
CurrentWorld == World(sets, cells, aliases)

\* a call that leaves the name-sets, history sets and shared lists as w
Step(w) ==
    /\ sets' = w.sets
    /\ cells' = w.cells
    /\ aliases' = w.aliases
    /\ UNCHANGED <<banned_words, walk>>

\* a method of the name-set self that works in place: self is left as the
\* method left it, also when it raised
InPlace(self, m, arg, res) ==
    \E r \in {InPlaceLeft(CurrentWorld, self, m, arg, res)} :
        /\ Bounded(r.res.s)
        /\ Step(r.w)

\* the four in-place operators, by name
ApplyOp(op, s, other) ==
    CASE op = "add" -> IAdd(s, other)
      [] op = "sub" -> ISub(s, other)
      [] op = "or"  -> IOr(s, other)
      [] op = "and" -> IAnd(s, other)

Ops == {"add", "sub", "or", "and"}

\* __add__, __sub__, __or__, __and__ up to the return: the operator works in
\* place on a copy and the copy's history is cleared
OperatorResult(op, s, other) == ApplyOp(op, Copy(s), other)

\* the world dst = self <op> other leaves, where res is what the in-place
\* operator did to the copy: copy_set = self.copy(), then copy_set <op>=
\* other, then copy_set.clear_history(); dst names the copy returned, and
\* when the operator raises nothing is bound
OperatorLeft(w, op, dst, self, other, res) ==
    IF res.exc # "none" THEN [res |-> res, w |-> w]
    ELSE LET h1   == CopyHistory(Heap(w.sets, w.cells), dst, self)
             h2   == [h1 EXCEPT !.sets[dst] = [res.s EXCEPT !.history = h1.sets[dst].history]]
             h3   == ClearHistory(h2, dst)
             keys == TakenKeys(op, w.sets[self], other, res)
             al   == {a \in w.aliases : dst \notin {a[1], a[2]}}
         IN  [res |-> res,
              w   |-> [sets |-> h3.sets, cells |-> h3.cells,
                       aliases |-> al \cup (IF keys = {} THEN {}
                                            ELSE NewAliases(w.aliases, dst, other.id, keys))]]

\* dst = self <op> other in the world w
OperatorOn(w, op, dst, self, other) ==
    OperatorLeft(w, op, dst, self, other, OperatorResult(op, w.sets[self], other))

\* dst = self <op> other
Operator(op, dst, self, other) ==
    \E r \in {OperatorOn(CurrentWorld, op, dst, self, other)} :
        /\ Bounded(r.res.s)
        /\ Step(r.w)

\* self <op>= other
InPlaceOperator(op, self, other) == InPlace(self, op, other, ApplyOp(op, sets[self], other))

DoAppend(self, name) == InPlace(self, "append", name, AppendName(sets[self], name))

DoAdd(self, name) == InPlace(self, "add_name", name, AddName(sets[self], name))

DoRemove(self, name) == InPlace(self, "remove", name, Remove(sets[self], name))

DoRemoveDuplicates(self) ==
    InPlace(self, "remove_duplicates", <<>>, RemoveDuplicates(sets[self]))

DoChangeOrder(self, order) == InPlace(self, "change_order", order, ChangeOrder(sets[self], order))

DoChangeNameLenFunc(self, func) ==
    InPlace(self, "change_name_len_func", func, Res(ChangeNameLenFunc(sets[self], func), "none", {}))

\* dst = self.copy()
DoCopy(dst, self) == Step(CopyOn(CurrentWorld, dst, self))

\* the name-sets and history sets of the state
CurrentHeap == Heap(sets, cells)

\* a method that leaves the name-sets and history sets as h
HistoryStep(h) ==
    /\ sets' = h.sets
    /\ cells' = h.cells
    /\ UNCHANGED <<aliases, banned_words, walk>>

DoAddToHistory(self, name_s) == HistoryStep(AddToHistory(CurrentHeap, self, name_s))

DoClearHistory(self) == HistoryStep(ClearHistory(CurrentHeap, self))

DoLinkHistories(self, other_name_sets) ==
    HistoryStep(LinkHistories(CurrentHeap, self, other_name_sets))

DoUnlinkHistory(self) == HistoryStep(UnlinkHistory(CurrentHeap, self))

\* make_name with one of the outcomes its random choices allow
DoMakeName(self, p) ==
    \E out \in MakeName(CurrentHeap, banned_words, self, p) : HistoryStep(out.h)

DoSetBannedWords(words) ==
    /\ banned_words' = SetBannedWords(banned_words, words).banned
    /\ UNCHANGED <<sets, cells, aliases, walk>>

DoAddBannedWords(words) ==
    /\ banned_words' = AddBannedWords(banned_words, words).banned
    /\ UNCHANGED <<sets, cells, aliases, walk>>

\* the right operands the callers pass: a list of names, or a name-set just
\* constructed from one
Lists == SeqsUpTo(NameUniverse, MaxOperand)
ListOperands == {ListOperand(names) : names \in Lists}
NameSetOperands ==
    {NameSetOperand(NewNameSet(names, order, func, 0)) :
        names \in Lists, order \in Orders, func \in NameLenFuncs}
Operands == ListOperands \cup NameSetOperands

\* the name-sets as constructed: A from a corpus, B, R and S empty, each with
\* its own empty history
Constructed(names, order, func) ==
    /\ sets = [s \in SetIds |->
                 CASE s = "A" -> NewNameSet(names, order, func, 1)
                   [] s = "B" -> NewNameSet(<<>>, 0, DEFAULT_NAME_LEN_FUNC, 2)
                   [] s = "R" -> NewNameSet(<<>>, 0, DEFAULT_NAME_LEN_FUNC, 3)
                   [] s = "S" -> NewNameSet(<<>>, 0, DEFAULT_NAME_LEN_FUNC, 4)]
    /\ cells = [c \in CellIds |-> {}]
    /\ aliases = {}
    /\ banned_words = {}
    /\ walk = Idle

\* the corpus operations of one name-set with lists as right operands
CorpusStep(self) ==
    \/ \E name \in NameUniverse : DoAppend(self, name)
    \/ \E name \in NameUniverse : DoAdd(self, name)
    \/ \E name \in NameUniverse : DoRemove(self, name)
    \/ DoRemoveDuplicates(self)
    \/ \E order \in OrderInputs : DoChangeOrder(self, order)
    \/ \E op \in Ops, other \in ListOperands : InPlaceOperator(op, self, other)

(***************************************************************************)
(* Spec: one name-set A with the default metric under its corpus           *)
(* operations.                                                             *)
(***************************************************************************)
Init == \E names \in Lists, order \in Orders : Constructed(names, order, DEFAULT_NAME_LEN_FUNC)

Next == CorpusStep("A")

Spec == Init /\ [][Next]_vars

(***************************************************************************)
(* SpecMetric: as Spec, with any metric installed at construction or by     *)
(* change_name_len_func.                                                   *)
(***************************************************************************)
InitMetric ==
    \E names \in Lists, order \in Orders, func \in NameLenFuncs : Constructed(names, order, func)

NextMetric ==
    \/ CorpusStep("A")
    \/ \E func \in NameLenFuncs : DoChangeNameLenFunc("A", func)

SpecMetric == InitMetric /\ [][NextMetric]_vars

(***************************************************************************)
(* SpecOperators: as Spec, with name-sets as right operands too and with   *)
(* the operators that return a new name-set, bound to A again              *)
(* (A = A + other).                                                        *)
(***************************************************************************)
NextOperators ==
    \/ CorpusStep("A")
    \/ \E op \in Ops, other \in NameSetOperands : InPlaceOperator(op, "A", other)
    \/ \E op \in Ops, other \in Operands : Operator(op, "A", "A", other)

SpecOperators == Init /\ [][NextOperators]_vars

(***************************************************************************)
(* SpecHistory: three name-sets under the history methods and make_name    *)
(* calls that record.  Each corpus is one name, which the name-set         *)
(* generates back.                                                         *)
(***************************************************************************)
InitHistory ==
    /\ sets = [s \in SetIds |->
                 CASE s = "A" -> NewNameSet(<<<<"a", "b">>>>, MaxOrder, DEFAULT_NAME_LEN_FUNC, 1)
                   [] s = "B" -> NewNameSet(<<<<"b">>>>, MaxOrder, DEFAULT_NAME_LEN_FUNC, 2)
                   [] s = "R" -> NewNameSet(<<<<"a">>>>, MaxOrder, DEFAULT_NAME_LEN_FUNC, 3)
                   [] s = "S" -> NewNameSet(<<>>, MaxOrder, DEFAULT_NAME_LEN_FUNC, 4)]
    /\ cells = [c \in CellIds |-> {}]
    /\ aliases = {}
    /\ banned_words = {}
    /\ walk = Idle

\* what callers pass to add_to_history: a name as a str, or a list of names
HistoryInputs == {StrInput(name) : name \in NameUniverse} \cup ListOperands

\* the name-sets passed to link_histories: none, one or two
LinkArgs == SeqsUpTo(Callers, 2)

\* make_name calls with the default candidates and preference
RecordingArgs ==
    {MakeNameArgs(flags, DEFAULT_N_CANDIDATES, AVG, MaxAttempts, "None") : flags \in Flags}

NextHistory ==
    \/ \E self \in Callers, name_s \in HistoryInputs : DoAddToHistory(self, name_s)
    \/ \E self \in Callers : DoClearHistory(self)
    \/ \E self \in Callers, others \in LinkArgs : DoLinkHistories(self, others)
    \/ \E self \in Callers : DoUnlinkHistory(self)
    \/ \E self \in Callers, p \in RecordingArgs : DoMakeName(self, p)

SpecHistory == InitHistory /\ [][NextHistory]_vars

(***************************************************************************)
(* SpecGenerate: make_name on the name-set A, while the history of A (its  *)
(* own, or shared with B) and the banned words change.                     *)
(***************************************************************************)
GenCorpus == <<<<"A", "b">>, <<"b", "A">>>>

InitGenerate ==
    /\ \E order \in 1..MaxOrder, func \in NameLenFuncs :
          sets = [s \in SetIds |->
                    CASE s = "A" -> NewNameSet(GenCorpus, order, func, 1)
                      [] s = "B" -> NewNameSet(<<>>, order, func, 2)
                      [] s = "R" -> NewNameSet(<<>>, order, func, 3)
                      [] s = "S" -> NewNameSet(<<>>, order, func, 4)]
    /\ cells = [c \in CellIds |-> {}]
    /\ aliases = {}
    /\ banned_words = {}
    /\ walk = Idle

MakeNameArgSets ==
    {MakeNameArgs(flags, n_candidates, pref_candidate, max_attempts, validation_func) :
        flags \in Flags, n_candidates \in 1..DEFAULT_N_CANDIDATES,
        pref_candidate \in {MIN, MAX, AVG, AVG + 1}, max_attempts \in {1, MaxAttempts},
        validation_func \in ValidationFuncs}

\* the calls that drive the history of A: the flags, the preference and the
\* validator in every combination, the rest at its default
GenerateArgs ==
    {p \in MakeNameArgSets :
        p.n_candidates = DEFAULT_N_CANDIDATES /\ p.max_attempts = MaxAttempts}

\* the words callers ban
BannedLists == {<<>>, <<<<"B">>>>}

NextGenerate ==
    \/ \E p \in GenerateArgs : DoMakeName("A", p)
    \/ DoAddToHistory("B", StrInput(GenCorpus[1]))
    \/ DoClearHistory("A")
    \/ DoLinkHistories("A", <<"B">>)
    \/ \E words \in BannedLists : DoSetBannedWords(ListOperand(words))
    \/ \E words \in BannedLists : DoAddBannedWords(ListOperand(words))

SpecGenerate == InitGenerate /\ [][NextGenerate]_vars

(***************************************************************************)
(* SpecFrame: three name-sets of one order and metric that are operands of *)
(* one another.  R is what the operators and copy() return; A and R change *)
(* in place; A, B and R link, fill and clear their histories.              *)
(***************************************************************************)
FrameNames == {<<"b">>, <<"a", "b">>}

\* the three name-sets as constructed
FrameWorld ==
    World([s \in SetIds |->
             CASE s = "A" -> NewNameSet(<<<<"b">>>>, MaxOrder, DEFAULT_NAME_LEN_FUNC, 1)
               [] s = "B" -> NewNameSet(<<<<"a", "b">>>>, MaxOrder, DEFAULT_NAME_LEN_FUNC, 2)
               [] s = "R" -> NewNameSet(<<>>, MaxOrder, DEFAULT_NAME_LEN_FUNC, 3)
               [] s = "S" -> NewNameSet(<<>>, MaxOrder, DEFAULT_NAME_LEN_FUNC, 4)],
          [c \in CellIds |-> {}], {})

\* the program starts in the world w
StartsAs(w) ==
    /\ sets = w.sets
    /\ cells = w.cells
    /\ aliases = w.aliases
    /\ banned_words = {}
    /\ walk = Idle

InitFrame == StartsAs(FrameWorld)

\* a name-set of the state as right operand
StateOperand(id) == [kind |-> "NameSet", names |-> sets[id].names, ns |-> sets[id], id |-> id]

\* the right operands of SpecFrame: a name-set of the state, or a list of one name
FrameOperands ==
    {StateOperand(id) : id \in Callers} \cup {ListOperand(<<name>>) : name \in FrameNames}

\* the corpora and the continuation lists stay within the bound of SpecFrame
FrameBounded ==
    \A s \in SetIds :
        /\ Len(sets'[s].names) <= MaxFrame
        /\ \A k \in DOMAIN sets'[s].markov_dict : Len(sets'[s].markov_dict[k]) <= MaxFrame

NextFrame ==
    \/ \E op \in Ops, self \in {"A", "B"}, other \in FrameOperands :
          Operator(op, "R", self, other) /\ FrameBounded
    \/ \E self \in {"A", "B"} : DoCopy("R", self)
    \/ \E name \in FrameNames : DoAppend("A", name) /\ FrameBounded
    \/ \E name \in FrameNames : DoRemove("A", name)
    \/ DoAddToHistory("B", StrInput(<<"a">>))
    \/ \E self \in {"A", "R"} : DoLinkHistories(self, <<"B">>)
    \/ DoClearHistory("A")
    \/ DoUnlinkHistory("A")

SpecFrame == InitFrame /\ [][NextFrame]_vars

(***************************************************************************)
(* SpecCopy: R = A.copy(), and then A and R change in place (A grows, R     *)
(* loses names and takes the names of A), and fill and clear their         *)
(* histories; B is linked to A.                                            *)
(***************************************************************************)
\* A and B as constructed, and R = A.copy()
InitCopy == StartsAs(CopyOn(FrameWorld, "R", "A"))

NextCopy ==
    \/ DoCopy("R", "A")
    \/ \E name \in FrameNames : DoAppend("A", name) /\ FrameBounded
    \/ \E name \in FrameNames : DoRemove("R", name)
    \/ InPlaceOperator("add", "R", StateOperand("A")) /\ FrameBounded
    \/ \E self \in {"A", "R"} : DoAddToHistory(self, StrInput(<<"a">>))
    \/ \E self \in {"A", "R"} : DoClearHistory(self)
    \/ DoLinkHistories("A", <<"B">>)

SpecCopy == InitCopy /\ [][NextCopy]_vars

(***************************************************************************)
(* SpecLink: four name-sets that link their histories in every way, one    *)
(* up to three in a call, and add to them and clear them.                  *)
(***************************************************************************)
\* the names recorded in SpecLink
LinkNames4 == {<<"a">>, <<"b">>}

\* the name-sets passed to link_histories in SpecLink: none, one or two of the four
LinkArgs4 == SeqsUpTo(SetIds, 2)

NextLink ==
    \/ \E self \in SetIds, name \in LinkNames4 : DoAddToHistory(self, StrInput(name))
    \/ \E self \in SetIds : DoClearHistory(self)
    \/ \E self \in SetIds, others \in LinkArgs4 : DoLinkHistories(self, others)

SpecLink == InitHistory /\ [][NextLink]_vars

(***************************************************************************)
(* What the claims speak of, stated without the code's algorithms.         *)
(***************************************************************************)
A == sets["A"]

Symbols == Chars \cup {END}

\* the context of the i-th position of name (i characters precede it): the
\* last min(i, n) of those characters
Context(name, i, n) == SubSeq(name, (IF i > n THEN i - n ELSE 0) + 1, i)

\* the symbol at the i-th position: the next character, or the end symbol
SymbolAt(name, i) == IF i = Len(name) THEN END ELSE name[i + 1]

\* all positions <<j, i>> of a corpus: i characters of the j-th name precede it
AllPositions(names) ==
    UNION {{<<j, i>> : i \in 0..Len(names[j])} : j \in 1..Len(names)}

\* the positions of a corpus at which symbol c follows context k
Positions(names, n, k, c) ==
    {p \in AllPositions(names) :
        /\ Context(names[p[1]], p[2], n) = k
        /\ SymbolAt(names[p[1]], p[2]) = c}

\* the contexts a corpus has
Contexts(names, n) == {Context(names[p[1]], p[2], n) : p \in AllPositions(names)}

\* the continuation list under a key, empty for a key the table lacks
Lookup(d, k) == IF k \in DOMAIN d THEN d[k] ELSE <<>>

Multiplicity(names, v) == Count(names, v)

HasDuplicates(names) == \E i, j \in 1..Len(names) : i < j /\ names[i] = names[j]

\* C1: in every state of a name-set driven by append, add, remove,
\* remove_duplicates, change_order, +=, -=, |=, &= with lists, each key of the
\* table holds each symbol as often as the corpus has positions where the
\* symbol follows that context, and only contexts of the corpus are keys
C1_TableCounts ==
    /\ DOMAIN A.markov_dict = Contexts(A.names, A.order)
    /\ \A k \in DOMAIN A.markov_dict \cup Contexts(A.names, A.order) : \A c \in Symbols :
          Count(Lookup(A.markov_dict, k), c) = Cardinality(Positions(A.names, A.order, k, c))
    /\ \A k \in DOMAIN A.markov_dict : Range(A.markov_dict[k]) \subseteq Symbols

\* position p comes before position q in the traversal of the corpus
Before(p, q) == p[1] < q[1] \/ (p[1] = q[1] /\ p[2] < q[2])

\* the positions of a corpus whose context is k
KeyPositions(names, n, k) ==
    {p \in AllPositions(names) : Context(names[p[1]], p[2], n) = k}

\* the symbols that follow context k, in the order the corpus is traversed
ExpectedList(names, n, k) ==
    LET P == KeyPositions(names, n, k)
    IN  [r \in 1..Cardinality(P) |->
            LET p == CHOOSE q \in P : Cardinality({x \in P : Before(x, q)}) = r - 1
            IN  SymbolAt(names[p[1]], p[2])]

\* the table of s is the from-scratch table of its corpus: under each context
\* the symbols that follow it, in traversal order
IsScratchTable(s) ==
    /\ DOMAIN s.markov_dict = Contexts(s.names, s.order)
    /\ \A k \in DOMAIN s.markov_dict : s.markov_dict[k] = ExpectedList(s.names, s.order, k)

\* a corpus with a repeated name whose table, after a remove, is no longer
\* the from-scratch table: the counts hold all the same
C1_Witness ==
    /\ A.order = 1
    /\ HasDuplicates(A.names)
    /\ ~IsScratchTable(A)

\* C2: while the corpus is not empty the cached mean is the sum of the metric
\* over the corpus divided by the number of entries
C2_MeanIsExact ==
    A.names # <<>> =>
        A.avg_name_len.n * Len(A.names) = SumLen(A.name_len_func, A.names) * A.avg_name_len.d

\* C3: the membership set is the set of the distinct values of the corpus,
\* and the two sizes agree exactly when no value is repeated
C3_MembershipSet ==
    /\ A.names_set = {A.names[i] : i \in 1..Len(A.names)}
    /\ (Len(A.names) = Cardinality(A.names_set)) <=> ~HasDuplicates(A.names)

\* a remove that takes one of two copies of a name and leaves the name in
\* the membership set
C3_Witness ==
    /\ Len(A.names) = 3
    /\ \E name \in NameUniverse :
          LET r == Remove(A, name)
          IN  /\ Count(A.names, name) = 2
              /\ r.exc = "none"
              /\ name \in r.s.names_set
              /\ Len(r.s.names) = Cardinality(r.s.names_set)

\* the tables built from scratch for the corpus of A: by the constructor, and
\* by change_order on A, for every order
ScratchBuilt ==
    {NewNameSet(A.names, order, A.name_len_func, 0) : order \in Orders}
    \cup {ChangeOrder(A, Half * order).s : order \in Orders}

\* the table holds one entry per position of the corpus, under the context of
\* the position, in traversal order, and no key is longer than the order
ScratchTable(s) ==
    /\ IsScratchTable(s)
    /\ \A k \in DOMAIN s.markov_dict : Len(k) <= s.order
    /\ s.order = 0 => DOMAIN s.markov_dict \subseteq {<<>>}

\* C6 as stated: a table built from scratch holds one entry per position,
\* under the position's context, in traversal order, keys no longer than N,
\* and the key "" holds exactly one entry per corpus string
C6_AsStated ==
    \A s \in ScratchBuilt :
        /\ ScratchTable(s)
        /\ Len(Lookup(s.markov_dict, <<>>)) = Len(s.names)

\* C6 amended: the key "" holds one entry per corpus string when N >= 1, and
\* every entry of the table (one per position) when N = 0
C6_ScratchTable ==
    \A s \in ScratchBuilt :
        /\ ScratchTable(s)
        /\ s.order >= 1 => Len(Lookup(s.markov_dict, <<>>)) = Len(s.names)
        /\ s.order = 0 =>
              Len(Lookup(s.markov_dict, <<>>)) = Cardinality(AllPositions(s.names))

\* change_order rebuilds the table of a three-name corpus for order 1: the
\* contexts of "ab" are cut to one character and "a" is shared by several names
C6_Witness ==
    /\ A.order = 0
    /\ Len(A.names) = 3
    /\ <<"a", "b">> \in Range(A.names)
    /\ LET r == ChangeOrder(A, Half * 1)
       IN  /\ r.exc = "none"
           /\ r.s.order = 1
           /\ Len(Lookup(r.s.markov_dict, <<"a">>)) >= 2
           /\ r.s.markov_dict # A.markov_dict

\* the entries of names whose index satisfies keep, in their order
RECURSIVE Kept(_, _, _)
Kept(names, keep(_), j) ==
    IF j > Len(names) THEN <<>>
    ELSE (IF keep(j) THEN <<names[j]>> ELSE <<>>) \o Kept(names, keep, j + 1)

\* the number of occurrences of names[j] among names[1..j]
Rank(names, j) == Count(SubSeq(names, 1, j), names[j])

\* the mean of s is the mean of its metric over its corpus (0 when empty)
IsExactMean(s) ==
    IF s.names = <<>> THEN s.avg_name_len = [n |-> 0, d |-> 1]
    ELSE /\ s.avg_name_len.d > 0
         /\ s.avg_name_len.n * Len(s.names) = SumLen(s.name_len_func, s.names) * s.avg_name_len.d

\* what C10 says of the name-set r.s that s &= other (or s & other) yields
AndPost(s, other, r) ==
    /\ r.exc = "none"
    /\ \A v \in NameUniverse :
          Count(r.s.names, v) =
             (IF Count(s.names, v) <= Count(other.names, v)
              THEN Count(s.names, v) ELSE Count(other.names, v))
    /\ r.s.names = Kept(s.names, LAMBDA j : Rank(s.names, j) <= Count(other.names, s.names[j]), 1)
    /\ r.s.names_set = Range(r.s.names)
    /\ r.s.order = s.order /\ r.s.name_len_func = s.name_len_func
    /\ IsScratchTable(r.s)
    /\ IsExactMean(r.s)
    /\ (\A v \in NameUniverse : Count(s.names, v) = 0 \/ Count(other.names, v) = 0)
          => r.s.markov_dict = EmptyDict /\ r.s.avg_name_len = [n |-> 0, d |-> 1]

\* C10: for the name-set A of every reachable state and every right operand
\* (a list or a name-set), A &= B and A & B hold each value min(multiplicity
\* in A, multiplicity in B) times, keep A's earliest occurrences in A's order,
\* and have the from-scratch table and mean of the retained corpus
C10_Intersection ==
    \A other \in Operands :
        /\ AndPost(A, other, IAnd(A, other))
        /\ AndPost(A, other, OperatorResult("and", A, other))

\* an intersection that keeps two of the three copies of a name
C10_Witness ==
    /\ Len(A.names) = 3
    /\ \E other \in Operands :
          LET r == IAnd(A, other)
          IN  /\ r.exc = "none"
              /\ \E v \in NameUniverse :
                    Count(A.names, v) = 3 /\ Count(other.names, v) = 2 /\ r.s.names = <<v, v>>

\* what C7 says of the name-set r.s that s += other (or s + other) yields
AddPost(s, other, r) ==
    /\ r.exc = "none"
    /\ r.s.names = s.names \o other.names
    /\ Len(r.s.names) = Len(s.names) + Len(other.names)
    /\ \A v \in NameUniverse :
          Count(r.s.names, v) = Count(s.names, v) + Count(other.names, v)
    /\ r.s.order = s.order /\ r.s.name_len_func = s.name_len_func
    /\ IsScratchTable(r.s)
    /\ IsExactMean(r.s)

\* C7: for the name-set A of every reachable state and every right operand
\* (a list or a name-set), A += B and A + B hold A's corpus followed by B's
\* entries with every duplicate kept, and have the table and mean of a
\* name-set built from scratch from that corpus with A's order and metric
C7_Concatenation ==
    \A other \in Operands :
        /\ AddPost(A, other, IAdd(A, other))
        /\ AddPost(A, other, OperatorResult("add", A, other))

\* what C8 says of the name-set r.s that s -= other (or s - other) yields
SubPost(s, other, r) ==
    /\ r.exc = "none"
    /\ \A v \in NameUniverse :
          Count(r.s.names, v) =
             (IF Count(s.names, v) >= Count(other.names, v)
              THEN Count(s.names, v) - Count(other.names, v) ELSE 0)
    /\ r.s.names = Kept(s.names, LAMBDA j : Rank(s.names, j) > Count(other.names, s.names[j]), 1)

\* C8: for the name-set A of every reachable state and every right operand,
\* A -= B and A - B hold each value max(0, multiplicity in A - multiplicity in
\* B) times, names of B absent from A are ignored without error, and the
\* occurrences removed are the earliest ones, the rest keeping their order
C8_Subtraction ==
    \A other \in Operands :
        /\ SubPost(A, other, ISub(A, other))
        /\ SubPost(A, other, OperatorResult("sub", A, other))

\* what C9 says of the name-set r.s that s |= other (or s | other) yields
OrPost(s, other, r) ==
    /\ r.exc = "none"
    /\ \A v \in NameUniverse :
          Count(r.s.names, v) =
             (IF v \in Range(s.names) \cup Range(other.names) THEN 1 ELSE 0)
    /\ Len(r.s.names) = Cardinality(Range(s.names) \cup Range(other.names))

\* C9: for the name-set A of every reachable state and every right operand
\* (an empty one and ones with duplicates included), A |= B and A | B hold
\* every distinct value of A or B exactly once and nothing else
C9_Union ==
    \A other \in Operands :
        /\ OrPost(A, other, IOr(A, other))
        /\ OrPost(A, other, OperatorResult("or", A, other))

(***************************************************************************)
(* Histories and generation.                                               *)
(***************************************************************************)
\* s and t hold the same history set object
SameHistory(h, s, t) == h.sets[s].history = h.sets[t].history

\* after self.link_histories(*others), self and the others hold one history,
\* the union of what they held
LinkShares(h) ==
    \A self \in Callers, others \in LinkArgs :
        LET linked == LinkHistories(h, self, others)
            before == UNION {History(h, m) : m \in {self} \cup Range(others)}
        IN  \A m, n \in {self} \cup Range(others) :
                /\ SameHistory(linked, m, n)
                /\ History(linked, m) = before

\* the name-sets that hold one history in h still hold one history in h2, and
\* see the same names through it
StaysShared(h, h2) ==
    \A s, t \in SetIds :
        SameHistory(h, s, t) => SameHistory(h2, s, t) /\ History(h2, s) = History(h2, t)

\* add_to_history, clear_history and a recording make_name through any
\* name-set leave every group of linked name-sets with identical histories:
\* what is added through one is seen through all, a clear clears all
SharedStays(h) ==
    \A self \in Callers :
        /\ \A name_s \in HistoryInputs :
              LET h2 == AddToHistory(h, self, name_s)
              IN  /\ StaysShared(h, h2)
                  /\ \A t \in SetIds :
                        SameHistory(h, self, t) =>
                           History(h2, t) = History(h, t) \cup NamesOf(name_s)
        /\ LET h2 == ClearHistory(h, self)
           IN  /\ StaysShared(h, h2)
               /\ \A t \in SetIds : SameHistory(h, self, t) => History(h2, t) = {}
        /\ \A p \in RecordingArgs : \A out \in MakeName(h, banned_words, self, p) :
              /\ StaysShared(h, out.h)
              /\ \A t \in SetIds :
                    (SameHistory(h, self, t) /\ p.add_to_history /\ out.name # <<>>) =>
                       History(out.h, t) = History(h, t) \cup {out.name}

\* C4: in every reachable state, link_histories leaves the caller and every
\* name-set passed with one shared history, the union of their histories before
\* the call; and name-sets that share a history see identical histories after
\* every add_to_history, clear_history or recording make_name through any
\* name-set (an add through one is visible through all, a clear clears all)
C4_SharedHistory ==
    /\ LinkShares(CurrentHeap)
    /\ SharedStays(CurrentHeap)

\* A and B are linked and R is not: the history A and B share holds two names
\* and the history of R another
C4_Witness ==
    /\ SameHistory(CurrentHeap, "A", "B")
    /\ ~SameHistory(CurrentHeap, "A", "R")
    /\ History(CurrentHeap, "A") = {<<"a">>, <<"b">>}
    /\ History(CurrentHeap, "R") = {<<"a", "b">>}

\* word occurs in name when case is ignored
OccursIgnoringCase(name, word) ==
    \E i \in 0..(Len(name) - Len(word)) :
        \A j \in 1..Len(word) : CasefoldChar(name[i + j]) = CasefoldChar(word[j])

\* C5: in every reachable state and for every combination of arguments, a
\* non-empty name that make_name on A can return passes the validator, is no
\* corpus entry unless exclude_real_names is false, is not in the (possibly
\* shared) history of A as it is at the call unless exclude_history is false,
\* and contains no banned word, case ignored
C5_ReturnedNameValid ==
    \A p \in MakeNameArgSets : \A out \in MakeName(CurrentHeap, banned_words, "A", p) :
        (out.exc = "none" /\ out.name # <<>>) =>
            /\ Validation(p.validation_func, out.name)
            /\ p.exclude_real_names => out.name \notin Range(A.names)
            /\ p.exclude_history => out.name \notin History(CurrentHeap, "A")
            /\ \A word \in banned_words : ~OccursIgnoringCase(out.name, word)

\* A shares with B a history that holds a corpus entry added through B, a
\* word is banned, and a make_name with every exclusion and a validator
\* still returns a name
C5_Witness ==
    /\ SameHistory(CurrentHeap, "A", "B")
    /\ GenCorpus[1] \in History(CurrentHeap, "A")
    /\ banned_words = {<<"B">>}
    /\ \E p \in MakeNameArgSets :
          /\ p.exclude_real_names /\ p.exclude_history
          /\ p.validation_func # "None"
          /\ p.max_attempts = MaxAttempts
          /\ \E out \in MakeName(CurrentHeap, banned_words, "A", p) :
                out.exc = "none" /\ out.name # <<>>

(***************************************************************************)
(* What a call leaves alone.                                               *)
(***************************************************************************)
\* the attributes of a name-set other than its history
Attributes(s) ==
    [names |-> s.names, names_set |-> s.names_set, markov_dict |-> s.markov_dict,
     avg_name_len |-> s.avg_name_len, order |-> s.order, name_len_func |-> s.name_len_func]

\* between the worlds w and w2 the name-set t kept every attribute, the
\* content of its history and the name-sets it shares its history with, the
\* name dst left aside
Untouched(w, w2, t, dst) ==
    /\ Attributes(w2.sets[t]) = Attributes(w.sets[t])
    /\ History(w2, t) = History(w, t)
    /\ \A u \in SetIds \ {dst} : SameHistory(w2, t, u) <=> SameHistory(w, t, u)

\* the name-set dst holds a history set no other name-set holds
OwnHistory(w, dst) == \A t \in SetIds \ {dst} : ~SameHistory(w, dst, t)

\* C11: in every reachable state, for R = X op Y with each of the operators
\* +, -, |, &, any name-set X of the state as left operand and any name-set
\* of the state or a list as right operand Y, the name-set returned has an
\* empty history that no other name-set holds, and A and B (both operands
\* among them) keep their corpus, membership set, table, mean, order, metric,
\* history content and link group; when the operator raises, nothing at all
\* is changed
C11_OperatorsLeaveOperands ==
    \A op \in Ops, self \in Callers, other \in FrameOperands :
        \A r \in {OperatorOn(CurrentWorld, op, "R", self, other)} :
            /\ \A t \in {"A", "B"} : Untouched(CurrentWorld, r.w, t, "R")
            /\ r.res.exc = "none" => History(r.w, "R") = {} /\ OwnHistory(r.w, "R")
            /\ r.res.exc # "none" => r.w = CurrentWorld

\* A and B share a history that is not empty, and R is what A + B returned:
\* R holds the names of A and of B, and an empty history of its own
C11_Witness ==
    /\ SameHistory(CurrentWorld, "A", "B")
    /\ History(CurrentWorld, "A") # {}
    /\ sets["A"].names # <<>>
    /\ sets["R"] = [OperatorResult("add", sets["A"], StateOperand("B")).s EXCEPT !.history = 3]
    /\ History(CurrentWorld, "R") = {}
    /\ OwnHistory(CurrentWorld, "R")

\* what callers pass to the in-place method m
MethodArgs(m) ==
    CASE m \in Ops -> FrameOperands
      [] m \in {"append", "add_name", "remove"} -> NameUniverse
      [] m = "remove_duplicates" -> {<<>>}
      [] m = "change_order" -> OrderInputs
      [] m = "change_name_len_func" -> NameLenFuncs

\* each of +=, -=, |=, &=, append, add, remove, remove_duplicates,
\* change_order and change_name_len_func, called on A or R with any argument,
\* leaves every history set as it was and the name-set holding the history
\* set it held: the content of its history is the same and it shares it with
\* the same name-sets, also when the call raises
InPlaceKeepsHistory ==
    \A self \in {"A", "R"}, m \in Methods : \A arg \in MethodArgs(m) :
        \A r \in {InPlaceOn(CurrentWorld, self, m, arg)} :
            /\ r.w.cells = cells
            /\ r.w.sets[self].history = sets[self].history
            /\ History(r.w, self) = History(CurrentWorld, self)
            /\ \A t \in SetIds : SameHistory(r.w, self, t) <=> SameHistory(CurrentWorld, self, t)

\* a step that changes the corpus, membership set, table, mean, order or
\* metric of A (the in-place methods do, and nothing else) leaves every
\* history set as it was and every name-set holding the history set it held
CorpusStepKeepsHistory ==
    Attributes(sets["A"])' # Attributes(sets["A"]) =>
        /\ cells' = cells
        /\ \A t \in SetIds : sets'[t].history = sets[t].history

\* C12: InPlaceKeepsHistory holds in every reachable state, and every step
\* that changes A in place keeps the histories (CorpusStepKeepsHistory)
C12_InPlaceKeepsHistory ==
    /\ []InPlaceKeepsHistory
    /\ [][CorpusStepKeepsHistory]_vars

\* A shares with B a history that is not empty, A was appended to, and a
\* further in-place operator changes the corpus of A
C12_Witness ==
    /\ SameHistory(CurrentWorld, "A", "B")
    /\ History(CurrentWorld, "A") # {}
    /\ Len(sets["A"].names) = MaxFrame
    /\ \E op \in Ops, other \in FrameOperands :
          \E r \in {InPlaceOn(CurrentWorld, "A", op, other)} :
              /\ r.res.exc = "none"
              /\ r.w.sets["A"].names # sets["A"].names
              /\ History(r.w, "A") = History(CurrentWorld, "A")
              /\ SameHistory(r.w, "A", "B")

\* what a name-set holds: its attributes and the content of its history
Holds(s) == <<Attributes(sets[s]), History(CurrentWorld, s)>>

\* R = self.copy() holds the attributes and the history content of self, in a
\* history set no other name-set holds
CopyEqual ==
    \A self \in Callers :
        \A w \in {CopyOn(CurrentWorld, "R", self)} :
            /\ Attributes(w.sets["R"]) = Attributes(sets[self])
            /\ History(w, "R") = History(CurrentWorld, self)
            /\ OwnHistory(w, "R")

\* C13: R = A.copy() compares equal to A (corpus, membership set, order,
\* metric, mean, table and history content) and is in no link group; and R
\* being a copy of A, whatever corpus or history mutation is applied to A or
\* to R, in any sequence, no step changes what both of them hold: the one the
\* mutation is not applied to keeps every field
C13_CopyIndependent ==
    /\ []CopyEqual
    /\ [][Holds("A")' = Holds("A") \/ Holds("R")' = Holds("R")]_vars

\* the step is a link_histories call with s among the name-sets it names
LinkNames(s) ==
    \E self \in Callers, others \in LinkArgs :
        /\ s \in {self} \cup Range(others)
        /\ \E l \in {LinkHistories(CurrentHeap, self, others)} : sets' = l.sets /\ cells' = l.cells

\* what self.unlink_history() does at once: self has the content it had in a
\* set nobody else holds, the others hold what they held and share it as
\* before, and what is then added or cleared through self does not show
\* through the others, nor the reverse
UnlinkSeparates ==
    \A self \in Callers :
        \A u \in {UnlinkHistory(CurrentHeap, self)} :
            /\ History(u, self) = History(CurrentHeap, self)
            /\ OwnHistory(u, self)
            /\ \A t, v \in SetIds \ {self} :
                  /\ History(u, t) = History(CurrentHeap, t)
                  /\ SameHistory(u, t, v) <=> SameHistory(CurrentHeap, t, v)
            /\ \A t \in Callers \ {self}, name_s \in HistoryInputs :
                  /\ History(AddToHistory(u, t, name_s), self) = History(u, self)
                  /\ History(ClearHistory(u, t), self) = History(u, self)
                  /\ History(AddToHistory(u, self, name_s), t) = History(u, t)
                  /\ History(ClearHistory(u, self), t) = History(u, t)

\* two name-sets that do not share their history stay apart, and no step
\* changes the history of both, unless the step is a link call naming one of them
StaysApart ==
    \A s, t \in Callers :
        (s # t /\ ~SameHistory(CurrentHeap, s, t)) =>
            \/ /\ ~SameHistory(CurrentHeap, s, t)'
               /\ \/ History(CurrentHeap, s)' = History(CurrentHeap, s)
                  \/ History(CurrentHeap, t)' = History(CurrentHeap, t)
            \/ LinkNames(s) \/ LinkNames(t)

\* C14: in every reachable state, unlink_history on any name-set leaves it
\* with the content it had, in a history of its own, and leaves the others
\* sharing what they shared with the content unchanged; and in every step
\* after that, until a link_histories call names it, an addition or a clear
\* (add_to_history, clear_history, make_name) made through one side shows
\* only on that side
C14_UnlinkSeparates ==
    /\ []UnlinkSeparates
    /\ [][StaysApart]_vars

\* A, B and R share one history that is not empty: B.unlink_history() leaves
\* A and R sharing it and B with the same content in a set of its own
C14_Witness ==
    /\ SameHistory(CurrentHeap, "A", "B") /\ SameHistory(CurrentHeap, "A", "R")
    /\ History(CurrentHeap, "A") # {}
    /\ \E u \in {UnlinkHistory(CurrentHeap, "B")} :
          /\ SameHistory(u, "A", "R") /\ ~SameHistory(u, "A", "B")
          /\ History(u, "B") = History(CurrentHeap, "A")
          /\ History(u, "A") = History(CurrentHeap, "A")

\* what self.link_histories(*others) does to the name-sets it does not name:
\* each keeps its content and its partners among them, shares nothing with a
\* name-set the call names, and sees nothing that is then added through one
LinkLeavesOthers(h, self, others) ==
    \A l \in {LinkHistories(h, self, others)} :
        \A t \in SetIds \ ({self} \cup Range(others)) :
            /\ History(l, t) = History(h, t)
            /\ \A v \in SetIds \ ({self} \cup Range(others)) :
                  SameHistory(l, t, v) <=> SameHistory(h, t, v)
            /\ \A n \in {self} \cup Range(others) :
                  /\ ~SameHistory(l, t, n)
                  /\ \A name \in NameUniverse :
                        History(AddToHistory(l, n, StrInput(name)), t) = History(h, t)

\* C15: in every reachable state of four name-sets, linked in any groups, a
\* link_histories call with any caller and any one or two others takes every
\* name-set it names out of its group: the name-sets not named keep sharing
\* among themselves as before, the content of their histories is what it was
\* (no name of the newly linked is gained), and a name then added through a
\* name-set the call named does not show in them
C15_LinkLeavesGroup ==
    \A self \in SetIds, others \in LinkArgs4 : LinkLeavesOthers(CurrentHeap, self, others)

\* A, B and R share a history, S holds another name; A.link_histories(S)
\* leaves B and R sharing what they had, and A and S sharing both names
C15_Witness ==
    /\ SameHistory(CurrentHeap, "A", "B") /\ SameHistory(CurrentHeap, "A", "R")
    /\ ~SameHistory(CurrentHeap, "A", "S")
    /\ History(CurrentHeap, "A") = {<<"a">>}
    /\ History(CurrentHeap, "S") = {<<"b">>}
    /\ \E l \in {LinkHistories(CurrentHeap, "A", <<"S">>)} :
          /\ SameHistory(l, "B", "R") /\ ~SameHistory(l, "A", "B")
          /\ History(l, "B") = {<<"a">>}
          /\ SameHistory(l, "A", "S")
          /\ History(l, "A") = {<<"a">>, <<"b">>}

\* s == NameSet(s.names, order, name_len_func) with the history of s: every
\* attribute is the one the constructor computes from the corpus
EqualsFresh(s) ==
    Attributes(s) = Attributes(NewNameSet(s.names, s.order, s.name_len_func, s.history))

\* C16: for the name-set A of every reachable state and every name,
\* A.append(name) and, for a name A holds, A.remove(name) return and leave A
\* equal (==) to a name-set built from scratch from the resulting corpus with
\* the same order and metric: the same keys, and under each key the same
\* continuation list in the same order
C16_RebuildEqual ==
    \A name \in NameUniverse :
        /\ \A r \in {AppendName(A, name)} : r.exc = "none" /\ EqualsFresh(r.s)
        /\ name \in Range(A.names) =>
              \A r \in {Remove(A, name)} : r.exc = "none" /\ EqualsFresh(r.s)

(***************************************************************************)
(* The candidate make_name selects.                                        *)
(***************************************************************************)
\* make_name calls with the preference pref
ArgsPreferring(pref) == {p \in MakeNameArgSets : p.pref_candidate = pref}

\* the lists of candidates a call of make_name on A can find in this state
Found(p) == NameCandidates(A, History(CurrentHeap, "A"), banned_words, p, 0)

\* the length metric of A
Metric(name) == NameLen(A.name_len_func, name)

\* the first of the candidates whose value is least under the order less
FirstLeast(candidates, value(_), less(_, _)) ==
    candidates[CHOOSE i \in 1..Len(candidates) :
                  \A j \in 1..Len(candidates) :
                      /\ ~less(value(candidates[j]), value(candidates[i]))
                      /\ j < i => less(value(candidates[i]), value(candidates[j]))]

\* C17: in every reachable state and for every list of candidates a call can
\* find, not empty, the name selected under MIN is the first generated of the
\* candidates of least metric, and under MAX the first generated of the
\* candidates of greatest metric
C17_MinMaxFirstBest ==
    /\ \A p \in ArgsPreferring(MIN) : \A candidates \in Found(p) \ {<<>>} :
          FirstSorted(A, p, candidates) = FirstLeast(candidates, Metric, LAMBDA x, y : x < y)
    /\ \A p \in ArgsPreferring(MAX) : \A candidates \in Found(p) \ {<<>>} :
          FirstSorted(A, p, candidates) = FirstLeast(candidates, Metric, LAMBDA x, y : x > y)

\* a call finds two different candidates of one metric and selects the first
\* under MIN and under MAX, and a call finds a longer candidate after a
\* shorter one and selects the longer under MAX
C17_Witness ==
    /\ \E p \in ArgsPreferring(MAX), q \in ArgsPreferring(MIN) :
          \E candidates \in Found(p) \cap Found(q) :
              /\ Len(candidates) = 2 /\ candidates[1] # candidates[2]
              /\ Metric(candidates[1]) = Metric(candidates[2])
              /\ FirstSorted(A, p, candidates) = candidates[1]
              /\ FirstSorted(A, q, candidates) = candidates[1]
    /\ \E p \in ArgsPreferring(MAX) : \E candidates \in Found(p) :
          /\ Len(candidates) = 2
          /\ Metric(candidates[1]) < Metric(candidates[2])
          /\ FirstSorted(A, p, candidates) = candidates[2]
          /\ \E out \in MakeName(CurrentHeap, banned_words, "A", p) : out.name = candidates[2]

\* how far the metric of a name is from the cached mean of A
Deviation(name) == RatAbs(RatSub(RatInt(Metric(name)), A.avg_name_len))

\* C18: in every reachable state where the cached mean of A is not zero, and
\* for every list of candidates a call can find, not empty, the name selected
\* under AVG is the first generated of the candidates whose metric is closest
\* to the cached mean
C18_AvgClosestToMean ==
    A.avg_name_len.n # 0 =>
        \A p \in ArgsPreferring(AVG) : \A candidates \in Found(p) \ {<<>>} :
            FirstSorted(A, p, candidates) = FirstLeast(candidates, Deviation, RatLess)

(***************************************************************************)
(* The loops of make_name, draw by draw.                                   *)
(***************************************************************************)
\* (mutant) the while loop without its break: every slot draws max_attempts
\* raw names
WhileLoopNoBreak(s, history, banned, p, n_attempts) ==
    {draws \in SeqsUpTo(MakeNameRaw(s), p.max_attempts - n_attempts) :
        Len(draws) = p.max_attempts - n_attempts}

\* the while loop of one slot from its n_attempts-th attempt: the raw names
\* it can draw, in the order drawn.  A valid name ends the loop (break), an
\* invalid one leads to the next attempt
RECURSIVE WhileLoop(_, _, _, _, _)
WhileLoop(s, history, banned, p, n_attempts) ==
    IF n_attempts < p.max_attempts
    THEN UNION {IF NameValid(s, history, banned, p, name) THEN {<<name>>}
                ELSE {<<name>> \o rest :
                         rest \in WhileLoop(s, history, banned, p, n_attempts + 1)}
                : name \in MakeNameRaw(s)}
    ELSE {<<>>}

\* what a slot leaves: the number of raw names it drew and what it appended
\* to name_candidates (the name drawn last, when valid)
Slot(s, history, banned, p, draws) ==
    [raws |-> Len(draws),
     appended |-> IF draws # <<>> /\ NameValid(s, history, banned, p, draws[Len(draws)])
                  THEN <<draws[Len(draws)]>> ELSE <<>>]

\* the for loop from its i-th slot, each slot drawing one of slot_draws: the
\* number of raw names the call can draw in all, with the name_candidates it
\* then holds
RECURSIVE ForLoop(_, _, _, _, _, _)
ForLoop(s, history, banned, p, slot_draws, i) ==
    IF i < p.n_candidates
    THEN LET slots == {Slot(s, history, banned, p, draws) : draws \in slot_draws}
             rests == ForLoop(s, history, banned, p, slot_draws, i + 1)
         IN  {[raws |-> slot.raws + rest.raws,
               name_candidates |-> slot.appended \o rest.name_candidates] :
                 slot \in slots, rest \in rests}
    ELSE {[raws |-> 0, name_candidates |-> <<>>]}

\* make_name calls that do not record, with no slot or no attempt as well;
\* the loops do not read the preference
LoopArgSets ==
    {MakeNameArgs(<<real, hist, FALSE>>, n_candidates, MIN, max_attempts, validation_func) :
        real \in BOOLEAN, hist \in BOOLEAN, n_candidates \in 0..DEFAULT_N_CANDIDATES,
        max_attempts \in {0, 1, MaxAttempts}, validation_func \in ValidationFuncs}

\* the preferences callers pass, the last one not a preference
Preferences == {MIN, MAX, AVG, AVG + 1}

\* the draws of one slot of a call on A in this state
SlotDraws(p) == WhileLoop(A, History(CurrentHeap, "A"), banned_words, p, 0)
\* the runs of the for loop of a call on A in this state
LoopRuns(p, slot_draws) ==
    ForLoop(A, History(CurrentHeap, "A"), banned_words, p, slot_draws, 0)
ValidDraw(p, name) == NameValid(A, History(CurrentHeap, "A"), banned_words, p, name)

\* a slot draws at most max_attempts raw names, none after its first valid
\* one, and stops short of max_attempts only at a valid one
StopsAtFirstValid(p, draws) ==
    /\ Len(draws) <= p.max_attempts
    /\ \A k \in 1..(Len(draws) - 1) : ~ValidDraw(p, draws[k])
    /\ Len(draws) < p.max_attempts => ValidDraw(p, draws[Len(draws)])

\* C19: in every reachable state and for every call, a slot draws at most
\* max_attempts raw names, none after its first valid one, and stops short of
\* max_attempts only at a valid one; the call draws at most n_candidates x
\* max_attempts raw names; and the call returns the empty name exactly when
\* no slot found a valid name, which is the only outcome when n_candidates
\* or max_attempts is 0
C19_BoundedGenerations ==
    \A p \in LoopArgSets : \A found \in {Found(p)} :
        /\ \A slot_draws \in {SlotDraws(p)} : \A runs \in {LoopRuns(p, slot_draws)} :
              /\ p.n_candidates = DEFAULT_N_CANDIDATES =>
                    \A draws \in slot_draws : StopsAtFirstValid(p, draws)
              /\ \A run \in runs :
                    /\ run.raws <= p.n_candidates * p.max_attempts
                    /\ Len(run.name_candidates) <= p.n_candidates
              /\ {run.name_candidates : run \in runs} = found
        /\ \A pref \in Preferences :
              \A outs \in {MakeName(CurrentHeap, banned_words, "A",
                                    [p EXCEPT !.pref_candidate = pref])} :
                  /\ (\E out \in outs : out.exc = "none" /\ out.name = <<>>) <=> <<>> \in found
                  /\ (p.n_candidates = 0 \/ p.max_attempts = 0) =>
                        outs = {[name |-> <<>>, exc |-> "none", h |-> CurrentHeap]}

\* a call of two slots and two attempts can draw four invalid names and
\* return the empty name, and can find a valid name at the second attempt of
\* a slot and return it
C19_Witness ==
    \E p \in LoopArgSets :
        /\ p.n_candidates = 2 /\ p.max_attempts = 2 /\ p.pref_candidate = MIN
        /\ \E run \in LoopRuns(p, SlotDraws(p)) : run.raws = 4 /\ run.name_candidates = <<>>
        /\ \E draws \in SlotDraws(p) :
              /\ Len(draws) = 2 /\ ValidDraw(p, draws[2])
              /\ \E out \in MakeName(CurrentHeap, banned_words, "A", p) :
                    out.exc = "none" /\ out.name = draws[2]

\* C20: in every reachable state and for every call the actions make, every
\* outcome of make_name leaves every name-set as it was (corpus, membership
\* set, table, mean, order, metric, and the history set it holds) and every
\* other history set as it was; the history of the name-set is the old one
\* with the returned name when a name was returned and add_to_history is true,
\* and the old one otherwise
C20_MakeNameRecordsReturned ==
    \A p \in GenerateArgs : \A out \in MakeName(CurrentHeap, banned_words, "A", p) :
        /\ out.h.sets = sets
        /\ \A c \in CellIds \ {A.history} : out.h.cells[c] = cells[c]
        /\ History(out.h, "A")
              = IF p.add_to_history /\ out.exc = "none" /\ out.name # <<>>
                THEN History(CurrentHeap, "A") \cup {out.name}
                ELSE History(CurrentHeap, "A")

\* a recording call finds two different candidates, neither in the history,
\* and the history it leaves holds the returned one and not the other
C20_Witness ==
    \E p \in GenerateArgs : \E candidates \in Found(p) :
        /\ p.add_to_history /\ p.pref_candidate = MIN
        /\ Len(candidates) = 2 /\ candidates[1] # candidates[2]
        /\ Range(candidates) \cap History(CurrentHeap, "A") = {}
        /\ \E out \in MakeName(CurrentHeap, banned_words, "A", p) :
              /\ out.name = FirstSorted(A, p, candidates)
              /\ out.name \in History(out.h, "A")
              /\ Range(candidates) \ History(out.h, "A") # {}

(***************************************************************************)
(* Errors of make_name.                                                    *)
(***************************************************************************)
\* C21: in every reachable state where the cached mean of A is 0, a call with
\* preference AVG that found candidates does not raise: it returns the first
\* generated of the candidates of least metric
C21_AvgZeroMeanFallsBack ==
    A.avg_name_len.n = 0 =>
        \A p \in ArgsPreferring(AVG) \cap GenerateArgs :
            \A outs \in {MakeName(CurrentHeap, banned_words, "A", p)} :
                /\ \A out \in outs : out.exc = "none"
                /\ \A candidates \in Found(p) \ {<<>>} :
                      \E out \in outs :
                          out.name = FirstLeast(candidates, Metric, LAMBDA x, y : x < y)

\* C22: in every reachable state, every outcome of a call whose preference is
\* none of MIN, MAX, AVG is a ValueError that leaves the history as it was,
\* with no slot or no attempt as well
C22_BadPreferenceRaises ==
    \A p \in LoopArgSets :
        \A out \in MakeName(CurrentHeap, banned_words, "A", [p EXCEPT !.pref_candidate = AVG + 1]) :
            /\ out.exc = "ValueError"
            /\ out.h = CurrentHeap

(***************************************************************************)
(* Errors of the operators, of add_to_history, remove and change_order.    *)
(***************************************************************************)
\* C23: in every reachable state, each of +=, -=, |=, &= on a name-set of the
\* state and each of +, -, |, & with it as left operand, given a str, raises
\* TypeError and leaves every name-set, history set and shared list as it
\* was; given the list of that one str, none of them raises TypeError, and +=
\* and + add it to the corpus as one name
C23_StrOperandRejected ==
    \A self \in Callers, op \in Ops, name \in NameUniverse :
        /\ \A r \in {InPlaceOn(CurrentWorld, self, op, StrInput(name)),
                     OperatorOn(CurrentWorld, op, "R", self, StrInput(name))} :
              r.res.exc = "TypeError" /\ r.w = CurrentWorld
        /\ \A r \in {InPlaceOn(CurrentWorld, self, op, ListOperand(<<name>>))} :
              /\ r.res.exc # "TypeError"
              /\ op = "add" => r.w.sets[self].names = Append(sets[self].names, name)
        /\ \A r \in {OperatorOn(CurrentWorld, op, "R", self, ListOperand(<<name>>))} :
              /\ r.res.exc # "TypeError"
              /\ op = "add" => r.w.sets["R"].names = Append(sets[self].names, name)

\* A holds names and shares a history that is not empty with B: A += str
\* raises TypeError, and A += [str] makes the corpus of A one name longer
C23_Witness ==
    /\ sets["A"].names # <<>>
    /\ SameHistory(CurrentWorld, "A", "B") /\ History(CurrentWorld, "A") # {}
    /\ \E name \in NameUniverse :
          /\ InPlaceOn(CurrentWorld, "A", "add", StrInput(name)).res.exc = "TypeError"
          /\ \E r \in {InPlaceOn(CurrentWorld, "A", "add", ListOperand(<<name>>))} :
                r.res.exc = "none" /\ Len(r.w.sets["A"].names) = Len(sets["A"].names) + 1

\* C24 (as stated): in every reachable state, add_to_history of a str on any
\* name-set is refused and leaves the history of the name-set as it was
C24_StrHistoryRejected ==
    \A self \in Callers, name \in NameUniverse :
        History(AddToHistory(CurrentHeap, self, StrInput(name)), self)
            = History(CurrentHeap, self)

\* C24 (amended): in every reachable state, add_to_history of a str on any
\* name-set leaves what add_to_history of the list of that one str leaves:
\* the history of the name-set is the old one with the str as one name, and
\* the name-sets and the other history sets are as they were
C24_StrHistoryIsOneName ==
    \A self \in Callers, name \in NameUniverse :
        \A h \in {AddToHistory(CurrentHeap, self, StrInput(name))} :
            /\ h = AddToHistory(CurrentHeap, self, ListOperand(<<name>>))
            /\ History(h, self) = History(CurrentHeap, self) \cup {name}
            /\ h.sets = sets
            /\ \A c \in CellIds \ {sets[self].history} : h.cells[c] = cells[c]

\* the history A and B share holds the name "ab" and neither "a" nor "b"
C24_Witness ==
    /\ SameHistory(CurrentHeap, "A", "B")
    /\ History(CurrentHeap, "B") = {<<"a", "b">>}

\* the name-set other differs from the name-set s in its order or its metric
Mismatched(s, other) ==
    s.order # other.ns.order \/ s.name_len_func # other.ns.name_len_func

\* C25: in every reachable state, each of +=, -=, |=, &= on A and each of +,
\* -, |, & with A as left operand, given a name-set of another order or
\* metric, issues the OrderWarning when the orders differ and the
\* NameLenWarning when the metrics differ, completes, and leaves the order
\* and the metric of A in A or in the result; B as such an operand is left
\* as it was
C25_MismatchWarnsAndCompletes ==
    /\ \A op \in Ops, other \in NameSetOperands :
          Mismatched(A, other) =>
              \A r \in {ApplyOp(op, A, other), OperatorResult(op, A, other)} :
                  /\ A.order # other.ns.order => "OrderWarning" \in r.warn
                  /\ A.name_len_func # other.ns.name_len_func => "NameLenWarning" \in r.warn
                  /\ r.exc = "none"
                  /\ r.s.order = A.order
                  /\ r.s.name_len_func = A.name_len_func
    /\ \A op \in Ops :
          Mismatched(A, StateOperand("B")) =>
              \A r \in {InPlaceOn(CurrentWorld, "A", op, StateOperand("B")),
                        OperatorOn(CurrentWorld, op, "R", "A", StateOperand("B"))} :
                  Attributes(r.w.sets["B"]) = Attributes(sets["B"])

\* the list names without its i-th entry
Without(names, i) == SubSeq(names, 1, i - 1) \o SubSeq(names, i + 1, Len(names))

\* C26: in every reachable state and for every name, remove of a name the
\* corpus of A does not hold raises ValueError and leaves every name-set,
\* history set and shared list as it was; remove of a name the corpus holds
\* does not raise ValueError and leaves the corpus without the earliest
\* occurrence of the name, every other entry in its place in the order
C26_RemoveOneOccurrence ==
    \A name \in NameUniverse : \A r \in {InPlaceOn(CurrentWorld, "A", "remove", name)} :
        IF name \notin Range(A.names)
        THEN r.res.exc = "ValueError" /\ r.w = CurrentWorld
        ELSE /\ r.res.exc # "ValueError"
             /\ \E i \in 1..Len(A.names) :
                   /\ A.names[i] = name
                   /\ \A j \in 1..(i - 1) : A.names[j] # name
                   /\ r.w.sets["A"].names = Without(A.names, i)

\* the corpus of A holds a name twice with another name between them, and
\* remove leaves the later occurrence behind the other name
C26_Witness ==
    \E name \in NameUniverse, between \in NameUniverse :
        /\ name # between
        /\ A.names = <<name, between, name>>
        /\ \E r \in {InPlaceOn(CurrentWorld, "A", "remove", name)} :
              r.res.exc = "none" /\ r.w.sets["A"].names = <<between, name>>

\* an order that is a whole number: twice some integer when counted in halves
WholeOrder(order) == \E n \in (-Half)..(Half * MaxOrder + 1) : order = Half * n

\* the worlds change_order is called in: the current one, with A brought to
\* each order by an earlier change_order
OrderWorlds == {InPlaceOn(CurrentWorld, "A", "change_order", Half * from).w : from \in Orders}

\* C27: the constructor and change_order raise ValueError for an order that is
\* not a whole number or is negative, and accept 0; a rejected change_order
\* leaves the order and the table as they were; an accepted change_order(M)
\* leaves the corpus, the mean and the history as they were and the table is
\* the one built from scratch for order M
C27_OrderValidation ==
    \A order \in OrderInputs :
        /\ \A made \in {Construct(A.names, order, A.name_len_func, A.history)} :
              /\ made.exc = "ValueError" <=> (~WholeOrder(order) \/ order < 0)
              /\ made.exc # "ValueError" =>
                    /\ made.exc = "none"
                    /\ Half * made.s.order = order
                    /\ made.s.names = A.names
                    /\ made.s.markov_dict = MakeMarkovDict(A.names, made.s.order)
        /\ \A w \in OrderWorlds : \A r \in {InPlaceOn(w, "A", "change_order", order)} :
              /\ r.res.exc = "ValueError" <=> (~WholeOrder(order) \/ order < 0)
              /\ r.res.exc = "ValueError" =>
                    /\ r.w.sets["A"].order = w.sets["A"].order
                    /\ r.w.sets["A"].markov_dict = w.sets["A"].markov_dict
              /\ r.res.exc # "ValueError" =>
                    /\ r.res.exc = "none"
                    /\ Half * r.w.sets["A"].order = order
                    /\ r.w.sets["A"].names = w.sets["A"].names
                    /\ r.w.sets["A"].avg_name_len = w.sets["A"].avg_name_len
                    /\ History(r.w, "A") = History(w, "A")
                    /\ r.w.sets["A"].markov_dict = MakeMarkovDict(w.sets["A"].names, r.w.sets["A"].order)

\* a name-set of order 1 with names in its history: change_order(1.5) and
\* change_order(-1) are rejected, change_order(0) is accepted and rebuilds
\* the table under the single key ""
C27_Witness ==
    /\ A.order = 1
    /\ Len(A.names) >= 2
    /\ History(CurrentWorld, "A") # {}
    /\ InPlaceOn(CurrentWorld, "A", "change_order", Half + 1).res.exc = "ValueError"
    /\ InPlaceOn(CurrentWorld, "A", "change_order", -Half).res.exc = "ValueError"
    /\ \E r \in {InPlaceOn(CurrentWorld, "A", "change_order", 0)} :
          /\ r.res.exc = "none"
          /\ r.w.sets["A"].order = 0
          /\ r.w.sets["A"].markov_dict # A.markov_dict
          /\ DOMAIN r.w.sets["A"].markov_dict = {<<>>}
    /\ Construct(A.names, 0, A.name_len_func, A.history).exc = "none"

\* the single corpus entry "name1": a name whose characters all differ
name1 == <<"a", "b">>

\* the names make_name with exclude_real_names = False can return on A in
\* this state once A has order N, over all other arguments and all draws
ReturnedAtOrder(N) ==
    {r.name : r \in {r \in UNION {MakeName([CurrentHeap EXCEPT !.sets["A"] = ChangeOrderValid(A, N)],
                                           banned_words, "A", p) :
                                  p \in {p \in MakeNameArgSets : ~p.exclude_real_names}} :
                     r.exc = "none"}}

\* C28 as stated: with the single entry "name1" as corpus and any order
\* N >= 0, make_name with exclude_real_names = False returns "name1" or ""
C28_AsStated ==
    A.names = <<name1>> => \A N \in Orders : ReturnedAtOrder(N) \subseteq {name1, <<>>}

\* C28 amended: with the single entry "name1" as corpus and any order N >= 1,
\* make_name with exclude_real_names = False returns "name1" or "", whatever
\* is drawn; with order 0 every continuation is drawn under the key "" and
\* other strings are returned
C28_SingleEntry ==
    A.names = <<name1>> => \A N \in Orders \ {0} : ReturnedAtOrder(N) \subseteq {name1, <<>>}

\* "name1" is in the history of A: make_name returns "" when it excludes the
\* history and "name1" when it does not; with order 0 it also returns the
\* one-character name "b"
C28_Witness ==
    /\ A.names = <<name1>>
    /\ name1 \in History(CurrentWorld, "A")
    /\ ReturnedAtOrder(MaxOrder) = {name1, <<>>}
    /\ <<"b">> \in ReturnedAtOrder(0)

(***************************************************************************)
(* Name-sets joined by += and +.                                           *)
(***************************************************************************)
\* the name-set id of the world w as right operand
OperandIn(w, id) == [kind |-> "NameSet", names |-> w.sets[id].names, ns |-> w.sets[id], id |-> id]

\* the corpus, the membership set, the table and the mean of a name-set
Content(s) == <<s.names, s.names_set, s.markov_dict, s.avg_name_len>>

\* the later mutations: append, remove, and +=, -=, |= of a list of one name
LaterMutations ==
    UNION {{<<"append", name>>, <<"remove", name>>, <<"add", ListOperand(<<name>>)>>,
            <<"sub", ListOperand(<<name>>)>>, <<"or", ListOperand(<<name>>)>>} : name \in FrameNames}

\* A += B and R = A + B called in this state: the world each leaves, with the
\* name-set that took B in
Joined ==
    {<<InPlaceOn(CurrentWorld, "A", "add", OperandIn(CurrentWorld, "B")).w, "A">>,
     <<OperatorOn(CurrentWorld, "add", "R", "A", OperandIn(CurrentWorld, "B")).w, "R">>}

\* C29: after A += B or R = A + B, with B of the order and the metric of A,
\* the corpus, the membership set, the table and the mean of B are what they
\* were, and they stay so under every later append, remove, +=, -=, |= on the
\* name-set that took B in; and no such mutation of B changes the table of
\* that name-set
C29_NoSharedList ==
    (sets["A"].order = sets["B"].order /\ sets["A"].name_len_func = sets["B"].name_len_func) =>
        \A joined \in Joined :
            /\ Content(joined[1].sets["B"]) = Content(sets["B"])
            /\ \A mutation \in LaterMutations :
                  /\ Content(InPlaceOn(joined[1], joined[2], mutation[1], mutation[2]).w.sets["B"])
                        = Content(sets["B"])
                  /\ InPlaceOn(joined[1], "B", mutation[1], mutation[2]).w.sets[joined[2]].markov_dict
                        = joined[1].sets[joined[2]].markov_dict

(***************************************************************************)
(* Operations that leave the corpus empty.                                 *)
(***************************************************************************)
\* remove of a name, -= of a list, and += and |= of an empty list
EmptyingCalls ==
    {<<"remove", name>> : name \in NameUniverse}
    \cup {<<"sub", other>> : other \in ListOperands}
    \cup {<<"add", ListOperand(<<>>)>>, <<"or", ListOperand(<<>>)>>}

\* C30: a remove, a -=, or a += or |= of an empty collection on A that leaves
\* the corpus of A empty raises nothing, and leaves the membership set
\* empty, the table without keys and the mean 0
C30_EmptyCorpusCompletes ==
    \A call \in EmptyingCalls : \A r \in {InPlaceOn(CurrentWorld, "A", call[1], call[2])} :
        (r.res.exc # "ValueError" /\ r.w.sets["A"].names = <<>>) =>
            /\ r.res.exc = "none"
            /\ r.w.sets["A"].names_set = {}
            /\ DOMAIN r.w.sets["A"].markov_dict = {}
            /\ r.w.sets["A"].avg_name_len = RatInt(0)

(***************************************************************************)
(* SpecRaw: calls of A._make_name_raw(), one round of the while loop at a  *)
(* time, on a name-set constructed from any corpus with any order.  The    *)
(* name collected so far is not part of the state: it is only returned,    *)
(* no condition of the loop reads it, and it grows without bound.          *)
(***************************************************************************)
RawCorpora == SeqsUpTo(NameUniverse, MaxNames)

\* the values next_letter_key can take
RawKeys == SeqsUpTo(Chars, MaxOrder)

InitRaw ==
    \E names \in RawCorpora, order \in Orders : Constructed(names, order, DEFAULT_NAME_LEN_FUNC)

\* name = ''; next_letter_key = ''
CallMakeNameRaw ==
    /\ walk.pc = "idle"
    /\ walk' = [pc |-> "while", next_letter_key |-> <<>>]
    /\ UNCHANGED <<sets, cells, aliases, banned_words>>

\* one round of the while loop, entered with next_letter_key, in which
\* rng.choice draws next_letter: _END breaks the loop, any other letter is
\* added to the key, which is cut back to the order
Draw(next_letter_key, next_letter) ==
    /\ walk.pc = "while"
    /\ walk.next_letter_key = next_letter_key
    /\ next_letter \in GetLetter(A, next_letter_key)
    /\ walk' = IF next_letter = END
               THEN [walk EXCEPT !.pc = "return"]
               ELSE [walk EXCEPT !.next_letter_key = NextKey(next_letter_key, next_letter, A.order)]
    /\ UNCHANGED <<sets, cells, aliases, banned_words>>

\* return name
ReturnName ==
    /\ walk.pc = "return"
    /\ walk' = Idle
    /\ UNCHANGED <<sets, cells, aliases, banned_words>>

NextRaw ==
    \/ CallMakeNameRaw
    \/ \E next_letter_key \in RawKeys, next_letter \in Chars \cup {END} :
          Draw(next_letter_key, next_letter)
    \/ ReturnName

SpecRaw == InitRaw /\ [][NextRaw]_vars

\* the while loop draws next_letter in this round, whatever its key
Draws(next_letter) == \E next_letter_key \in RawKeys : Draw(next_letter_key, next_letter)

\* rng.choice is fair: a letter that can be drawn again and again is drawn at
\* some time.  This asks less of the draws than fairness for every key and
\* letter does, the keys being finitely many.
FairRaw ==
    /\ SpecRaw
    /\ \A next_letter \in Chars \cup {END} : SF_vars(Draws(next_letter))

\* the key the walk stands at is a key of the table of A and has a
\* continuation
KeyHasContinuation ==
    walk.pc = "while" =>
        /\ walk.next_letter_key \in DOMAIN A.markov_dict
        /\ A.markov_dict[walk.next_letter_key] # <<>>

\* some sequence of at most n + 1 draws from the list of key, and of the keys
\* that follow, ends with _END
RECURSIVE EndWithin(_, _, _)
EndWithin(s, key, n) ==
    /\ key \in DOMAIN s.markov_dict
    /\ \/ END \in Range(s.markov_dict[key])
       \/ /\ n > 0
          /\ \E letter \in Range(s.markov_dict[key]) \ {END} :
                EndWithin(s, NextKey(key, letter, s.order), n - 1)

\* from the key the walk stands at some sequence of draws reaches _END
EndReachable ==
    walk.pc = "while" => EndWithin(A, walk.next_letter_key, Cardinality(RawKeys))

GroupCorpus == <<<<"a", "b">>, <<"b">>>>

InitGroup ==
    /\ \E order \in 1..MaxOrder :
          sets = [s \in SetIds |->
                    CASE s = "A" -> NewNameSet(GroupCorpus, order, DEFAULT_NAME_LEN_FUNC, 1)
                      [] s = "B" -> NewNameSet(GroupCorpus, order, DEFAULT_NAME_LEN_FUNC, 2)
                      [] s = "R" -> NewNameSet(GroupCorpus, order, DEFAULT_NAME_LEN_FUNC, 3)
                      [] s = "S" -> NewNameSet(<<>>, order, DEFAULT_NAME_LEN_FUNC, 4)]
    /\ cells = [c \in CellIds |-> {}]
    /\ aliases = {}
    /\ banned_words = {}
    /\ walk = Idle

\* make_name calls that may return corpus entries, with exclude_history and
\* add_to_history in every combination
GroupArgs ==
    {MakeNameArgs(<<FALSE, exclude_history, add_to_history>>, DEFAULT_N_CANDIDATES, MIN,
                  MaxAttempts, "None") : exclude_history \in BOOLEAN, add_to_history \in BOOLEAN}

NextGroup ==
    \/ \E self \in Callers, p \in GroupArgs : DoMakeName(self, p)
    \/ \E self \in Callers : DoAddToHistory(self, StrInput(<<"b">>))
    \/ \E self \in Callers, other \in Callers : DoLinkHistories(self, <<other>>)
    \/ \E self \in Callers : DoUnlinkHistory(self)
    \/ \E self \in Callers : DoClearHistory(self)

SpecGroup == InitGroup /\ [][NextGroup]_vars

\* the name-sets that hold the history set of s in h
LinkGroup(h, s) == {t \in SetIds : SameHistory(h, s, t)}

\* the calls with exclude_history and add_to_history both true
RecordingExcluding == {p \in GroupArgs : p.exclude_history /\ p.add_to_history}

\* the outcomes of self.make_name(p) in h that return a name
Successful(h, self, p) ==
    {out \in MakeName(h, banned_words, self, p) : out.exc = "none" /\ out.name # <<>>}

\* the link group of s in h is the same in h2 and its history holds name
GroupKeeps(h, h2, s, name) ==
    /\ LinkGroup(h2, s) = LinkGroup(h, s)
    /\ \A t \in LinkGroup(h, s) : name \in History(h2, t)

\* C32: in every reachable state, a name returned by a make_name call with
\* exclude_history and add_to_history through s was not in the history of the
\* link group of s and is in it afterwards, for every member; every later
\* make_name or add_to_history through any name-set leaves the group as it is
\* and the name in its history; and no such make_name call through any
\* member then returns the name again
C32_NoRepeatInGroup ==
    \A s \in Callers, p \in RecordingExcluding : \A out \in Successful(CurrentHeap, s, p) :
        /\ out.name \notin History(CurrentHeap, s)
        /\ GroupKeeps(CurrentHeap, out.h, s, out.name)
        /\ \A u \in Callers :
              /\ \A q \in GroupArgs : \A later \in MakeName(out.h, banned_words, u, q) :
                    GroupKeeps(out.h, later.h, s, out.name)
              /\ GroupKeeps(out.h, AddToHistory(out.h, u, StrInput(<<"b">>)), s, out.name)
        /\ \A t \in LinkGroup(out.h, s), q \in RecordingExcluding :
              \A again \in Successful(out.h, t, q) : again.name # out.name

\* A and B are linked and R is not, the history is empty: A can return "ab",
\* after which B, whose corpus makes "ab" too, can only return "b", while R
\* can still return "ab"
C32_Witness ==
    /\ LinkGroup(CurrentHeap, "A") = {"A", "B"}
    /\ History(CurrentHeap, "A") = {}
    /\ \E p \in RecordingExcluding : \E out \in Successful(CurrentHeap, "A", p) :
          /\ out.name = <<"a", "b">>
          /\ {again.name : again \in Successful(out.h, "B", p)} = {<<"b">>}
          /\ <<"a", "b">> \in {again.name : again \in Successful(out.h, "R", p)}

(***************************************************************************)
(* Subtraction of a name-set from itself, and remove_duplicates.           *)
(***************************************************************************)
\* C33: in every reachable state A -= A leaves A as A -= A.copy() does and
\* raises what it raises, and the corpus of A is empty afterwards
C33_SelfSubtraction ==
    \A own \in {InPlaceOn(CurrentWorld, "A", "sub", OperandIn(CurrentWorld, "A"))} :
        \A copied \in {InPlaceOn(CurrentWorld, "A", "sub", NameSetOperand(Copy(A)))} :
            /\ own.res.exc = copied.res.exc
            /\ Attributes(own.w.sets["A"]) = Attributes(copied.w.sets["A"])
            /\ own.w.sets["A"].names = <<>>

\* the distinct values of names, each once, in the order of their first
\* occurrence
RECURSIVE FirstOccurrences(_, _)
FirstOccurrences(names, seen) ==
    IF names = <<>> THEN <<>>
    ELSE IF Head(names) \in seen THEN FirstOccurrences(Tail(names), seen)
    ELSE <<Head(names)>> \o FirstOccurrences(Tail(names), seen \cup {Head(names)})

\* C34: in every reachable state remove_duplicates on A raises nothing and
\* leaves as corpus the distinct values of the corpus, each once, in the
\* order of their first occurrence; a second remove_duplicates changes nothing
C34_RemoveDuplicates ==
    \A once \in {InPlaceOn(CurrentWorld, "A", "remove_duplicates", <<>>)} :
        /\ once.res.exc = "none"
        /\ once.w.sets["A"].names = FirstOccurrences(A.names, {})
        /\ \A twice \in {InPlaceOn(once.w, "A", "remove_duplicates", <<>>)} :
              twice.res.exc = "none" /\ twice.w = once.w

\* the rest of C34 holds: one occurrence of every distinct value, none lost
\* and none added, and a second remove_duplicates changes nothing
C34_OneOfEach ==
    \A once \in {InPlaceOn(CurrentWorld, "A", "remove_duplicates", <<>>)} :
        /\ once.res.exc = "none"
        /\ Range(once.w.sets["A"].names) = Range(A.names)
        /\ Len(once.w.sets["A"].names) = Cardinality(Range(A.names))
        /\ \A twice \in {InPlaceOn(once.w, "A", "remove_duplicates", <<>>)} :
              twice.res.exc = "none" /\ twice.w = once.w

====
